---- MODULE Spec2Model ----
(***************************************************************************)
(* Model of the orchestration state machine (src/orchestrator.py) and of   *)
(* the circuit breaker (src/utils/circuit_breaker.py).                     *)
(*                                                                         *)
(* Orchestrator.run() is one sequential procedure; pc is its position:     *)
(*   "init"     constructed, run() not yet called                          *)
(*   "loop"     at the while condition (line 217)                          *)
(*   "breaker"  inside a pass, counter incremented, before should_stop     *)
(*   "dispatch" inside a pass, before the try block (line 264)             *)
(*   "finalize" loop left, before _finalize() (line 338)                   *)
(*   "done"     run() has returned `result`                                *)
(* The agents are the environment: each phase call either returns or       *)
(* raises, and the tester's report is passed or not passed.                *)
(***************************************************************************)
EXTENDS Integers, FiniteSets, Sequences, TLC

\* ------------------------------------------------------------- bounds
\* largest max_iterations explored
MaxIterations == 10
\* largest explicitly configured circuit-breaker threshold explored
MaxThreshold == 3
\* largest iteration count handed to should_stop by a direct caller
MaxCallArg == 16
MaxContextPasses == 4

\* ------------------------------------------------- program constants
\* circuit_config.get('warning_threshold', 12)
DefaultWarningThreshold == 12
\* circuit_config.get('hard_stop', 15)
DefaultHardStop == 15

\* OrchestrationState
INIT == "init"
PLANNING == "planning"
CODING == "coding"
REVIEWING == "reviewing"
AUDITING == "auditing"
TESTING == "testing"
REFLECTING == "reflecting"
SUCCESS == "success"
FAILED == "failed"
PAUSED == "paused"

OrchestrationState ==
    {INIT, PLANNING, CODING, REVIEWING, AUDITING, TESTING, REFLECTING,
     SUCCESS, FAILED, PAUSED}

\* the states that have a branch in the dispatch of run()
Phases == {PLANNING, CODING, REVIEWING, AUDITING, TESTING, REFLECTING}

VARIABLES
    max_iterations,         \* Orchestrator.max_iterations
    enable_code_review,     \* Orchestrator.enable_code_review
    enable_security_audit,  \* Orchestrator.enable_security_audit
    warning_threshold,      \* CircuitBreaker.warning_threshold
    hard_stop,              \* CircuitBreaker.hard_stop
    user_confirmed,         \* CircuitBreaker.user_confirmed (one-shot flag)
    state,                  \* Orchestrator.state
    current_iteration,      \* Orchestrator.current_iteration
    pc,                     \* position of run()
    result,                 \* the dictionary returned by run()
    cb_arg,                 \* argument of the latest should_stop call (-1: none)
    cb_ret,                 \* value returned by the latest should_stop call
    cb_op,                  \* the latest call on the breaker ("none": no call yet)
    warnings_logged,        \* "warning_threshold_reached" log entries since
                            \* construction or the latest reset()
    was_reset,              \* reset() has been called on the breaker
    stop_seen,              \* should_stop has returned True during this run
    exit_reason,            \* how the while loop was left
    dispatched,             \* per phase: how often run() called its phase function
    completed,              \* per phase: how often the phase function returned
    last_dispatched,        \* phase of the latest dispatch ("none": no dispatch yet)
    last_raised,            \* the latest dispatch ended in the except branch
    last_passed,            \* the tester's latest report
    hooks,                  \* HookRegistry.hooks: the registered hooks, in list order
    hook_enabled,           \* ExecutionHook.enabled of every hook object
    registration_order,     \* the registered hooks in the order of their register calls
    hp_pc,                  \* _execute_hooks: "idle", "running" or "returned"
    hp_phase,               \* _execute_hooks: its `phase` argument
    hp_input,               \* _execute_hooks: its `context` argument
    hp_index,               \* _execute_hooks: position of the for loop in hooks
    hp_context,             \* _execute_hooks: current_context
    hp_warnings,            \* _execute_hooks: all_warnings
    hp_result,              \* _execute_hooks: the returned HookResult ("none": not yet)
    hp_trace,               \* should_run / execute invocations of the run, in order
    sb_pc,                  \* position of SandboxManager._run_command
    sb_command,             \* _run_command: its `command` argument, joined
    sb_docker,              \* SandboxManager._docker is set
    sb_hook_result,         \* _run_command: its local hook_result ("none": not yet)
    sb_spawned,             \* processes started by _run_command, in order
    sb_post_runs,           \* calls of _execute_post_hooks by _run_command
    sb_returncode,          \* returncode of the CompletedProcess returned (-1: none)
    sb_exception,           \* the exception that left _run_command ("none": none)
    test_result,            \* the dictionary the tester handed to the testing phase
    tester_pc,              \* position of the testing phase behind _run_command
    context,                \* Orchestrator.context: the shared Context
    max_tokens,             \* ContextThresholds.max_tokens of the hygiene manager
    hygiene_pc,             \* position of the pass in the context's life
    snapshot_status,        \* status of the latest ContextSnapshot ("none": none yet)
    context_before,         \* the Context handed to the latest compact call
    context_unordered,      \* the Context handed to the latest apply_recency_bias call
    db_task,                \* the task's row in the tasks table
    patterns,               \* rows of the patterns table written by this run
    failures,               \* rows of the failures table written by this run
    checkpoint_file,        \* content of checkpoint.json in the workspace
    checkpoint_log,         \* iterations at which _save_checkpoint wrote the file
    save_raised,            \* the latest StateSaver.save call raised
    failed_write,           \* the persistence write that raised ("none": none has)
    saved,                  \* arguments of the latest StateSaver.save call that returned
    loaded,                 \* value returned by the latest StateSaver.load call
    stored_pattern,         \* the pattern _finalize builds from the Context
    planner_dependencies,   \* result['dependencies'] of the latest planner call,
                            \* in tokens (0: no call yet)
    coder_files,            \* result['code_files'] of the latest coder call
    tokens_used,            \* TokenBudgetHook.tokens_used
    budget_ceiling,         \* TokenBudgetHook.max_tokens
    budget_call,            \* the latest TokenBudgetHook.execute call
    max_same_error,         \* IterationGuardHook.max_same_error
    error_history,          \* IterationGuardHook.error_history
    guard_call,             \* the latest IterationGuardHook.execute call
    pass_trace,             \* steps run() has taken in the current pass, in order
    iteration_records,      \* create_iteration calls of the run, in order
    run_hook_result,        \* run(): its local hook_result ("none": not yet)
    previous_error,         \* the text of context['previous_errors']
    failure_cycles,         \* the reflection phases of the run and their root causes
    extract_call            \* the latest FailureAnalyzer.extract call

config == <<max_iterations, enable_code_review, enable_security_audit,
            warning_threshold, hard_stop>>
orch == <<state, current_iteration, pc, result, stop_seen, exit_reason,
          dispatched, completed, last_dispatched, last_raised, last_passed>>
breaker == <<user_confirmed, cb_arg, cb_ret, cb_op, warnings_logged, was_reset>>
registry == <<hooks, hook_enabled, registration_order>>
pipeline == <<hp_pc, hp_phase, hp_input, hp_index, hp_context, hp_warnings,
              hp_result, hp_trace>>
\* what the model of run() and of the breaker leaves alone
sandbox == <<sb_pc, sb_command, sb_docker, sb_hook_result, sb_spawned,
             sb_post_runs, sb_returncode, sb_exception, test_result,
             tester_pc>>
hygiene == <<context, max_tokens, hygiene_pc, snapshot_status, context_before,
             context_unordered>>
persistence == <<db_task, patterns, failures, checkpoint_file, checkpoint_log,
                 save_raised, failed_write, saved, loaded>>
pattern_log == <<stored_pattern, planner_dependencies, coder_files>>
guards == <<tokens_used, budget_ceiling, budget_call, max_same_error,
            error_history, guard_call>>
pass_log == <<pass_trace, iteration_records, run_hook_result, previous_error,
              failure_cycles>>
others == <<guards, pass_log, extract_call, pattern_log>>
not_run == <<registry, pipeline, sandbox, hygiene, persistence, others>>
vars == <<config, orch, breaker, registry, pipeline, sandbox, hygiene,
          persistence, others>>

\* thresholds a configuration may give the breaker
Thresholds == (0..MaxThreshold) \cup {DefaultWarningThreshold, DefaultHardStop}

\* ---------------------------------------------------- circuit breaker
\* CircuitBreaker.should_stop: the returned value
ShouldStopMutOffByOne(i, uc) == i > hard_stop
ShouldStopMutWarningStops(i, uc) ==
    IF i >= hard_stop THEN TRUE
    ELSE IF i >= warning_threshold /\ ~uc THEN TRUE
    ELSE FALSE
ShouldStop(i, uc) ==
    IF i >= hard_stop THEN TRUE
    ELSE IF i >= warning_threshold /\ ~uc THEN FALSE
    ELSE FALSE

\* CircuitBreaker.should_stop: user_confirmed after the call
ShouldStopConfirmedMutNeverSet(i, uc) == uc
ShouldStopConfirmed(i, uc) ==
    IF i >= hard_stop THEN uc
    ELSE IF i >= warning_threshold /\ ~uc THEN TRUE
    ELSE uc

\* CircuitBreaker.should_stop: the call logs "warning_threshold_reached"
ShouldStopWarns(i, uc) ==
    IF i >= hard_stop THEN FALSE
    ELSE IF i >= warning_threshold /\ ~uc THEN TRUE
    ELSE FALSE

\* one call of CircuitBreaker.should_stop(i)
BreakerCall(i) ==
    /\ cb_arg' = i
    /\ cb_op' = "should_stop"
    /\ cb_ret' = ShouldStop(i, user_confirmed)
    /\ user_confirmed' = ShouldStopConfirmed(i, user_confirmed)
    /\ warnings_logged' = IF ShouldStopWarns(i, user_confirmed)
                          THEN warnings_logged + 1
                          ELSE warnings_logged
    /\ UNCHANGED was_reset

\* ------------------------------------------------- hook pipeline: data
\* HookPhase
PRE_EXECUTION == "pre_execution"
POST_EXECUTION == "post_execution"

\* HookResult
ALLOW == "allow"
BLOCK == "block"
MODIFY == "modify"
WARN == "warn"
REQUIRE_APPROVAL == "require_approval"

\* the hook objects a caller may register: A before B and C, which tie on
\* priority, and D in the other phase
HookIds == {"A", "B", "C", "D"}

\* ExecutionHook.name
HookName(h) == h

\* ExecutionHook.phase
HookPhaseOf(h) == IF h = "D" THEN POST_EXECUTION ELSE PRE_EXECUTION

\* ExecutionHook.priority
HookPriority(h) ==
    CASE h = "A" -> 10
      [] h = "B" -> 20
      [] h = "C" -> 20
      [] h = "D" -> 80

\* the HookContext objects handed to the pipeline
HookContexts ==
    {[operation |-> op, agent_type |-> "sandbox", iteration |-> 0,
      target |-> "workspace", content |-> "original",
      metadata |-> "metadata"] : op \in {"execute_command", "write_file"}}

\* a HookContext that is not one (no run yet)
NoContext ==
    [operation |-> "none", agent_type |-> "none", iteration |-> -1,
     target |-> "none", content |-> "none", metadata |-> "none"]

\* the HookResponse objects hook h may return from execute: one of each result
HookResponses(h) ==
    {[result |-> ALLOW, message |-> "", modified_content |-> "none",
      warnings |-> <<>>],
     [result |-> WARN, message |-> "warned", modified_content |-> "none",
      warnings |-> <<[hook |-> HookName(h), text |-> "explicit warning"]>>],
     [result |-> MODIFY, message |-> "modified",
      modified_content |-> "content_of_" \o h, warnings |-> <<>>],
     [result |-> BLOCK, message |-> "blocked", modified_content |-> "none",
      warnings |-> <<>>],
     [result |-> REQUIRE_APPROVAL, message |-> "needs approval",
      modified_content |-> "none", warnings |-> <<>>]}

\* ------------------------------------------------- hook pipeline: registry
\* list.sort(key=priority) is stable: insert x behind every element whose
\* priority is not larger
RECURSIVE InsertByPriorityMutUnstable(_, _)
InsertByPriorityMutUnstable(x, sorted) ==
    IF sorted = <<>> THEN <<x>>
    ELSE IF HookPriority(Head(sorted)) < HookPriority(x)
         THEN <<Head(sorted)>> \o InsertByPriorityMutUnstable(x, Tail(sorted))
         ELSE <<x>> \o sorted

RECURSIVE InsertByPriority(_, _)
InsertByPriority(x, sorted) ==
    IF sorted = <<>> THEN <<x>>
    ELSE IF HookPriority(Head(sorted)) <= HookPriority(x)
         THEN <<Head(sorted)>> \o InsertByPriority(x, Tail(sorted))
         ELSE <<x>> \o sorted

RECURSIVE SortByPriority(_)
SortByPriority(list) ==
    IF list = <<>> THEN <<>>
    ELSE InsertByPriority(list[Len(list)],
                          SortByPriority(SubSeq(list, 1, Len(list) - 1)))

\* the hooks of a list
Registered(list) == {list[i] : i \in 1..Len(list)}

\* the list without the hooks named n
WithoutName(list, n) ==
    LET Keep(h) == HookName(h) # n IN SelectSeq(list, Keep)

\* the enabled flags after enable(n) / disable(n): every registered hook
\* named n gets the flag
WithEnabled(flags, list, n, value) ==
    [h \in HookIds |->
        IF h \in Registered(list) /\ HookName(h) = n THEN value ELSE flags[h]]

\* ------------------------------------------------- hook pipeline: a run
\* ExecutionHook.should_run of the hook objects: A and D look at the operation
\* (as BlockDangerousCommandsHook and AutoFormatCodeHook do), C looks at the
\* content, B runs always
ShouldRun(h, ctx) ==
    CASE h = "A" -> ctx.operation = "execute_command"
      [] h = "C" -> ctx.content # "original"
      [] h = "D" -> ctx.operation = "write_file"
      [] OTHER -> TRUE

\* _execute_hooks, lines 413-414: the hook is passed over without any call
PassedOver(h, phase) ==
    ~hook_enabled[h] \/ HookPhaseOf(h) # phase

\* _execute_hooks, lines 432-434: all_warnings after a response
WarningsAfter(warnings, h, response) ==
    warnings \o response.warnings \o
    (IF response.message # ""
     THEN <<[hook |-> HookName(h), text |-> response.message]>>
     ELSE <<>>)

\* _execute_hooks, lines 437-451: the response ends the run
StopsPipelineMutOnlyApproval(response) ==
    response.result = REQUIRE_APPROVAL
StopsPipeline(response) ==
    response.result = BLOCK \/ response.result = REQUIRE_APPROVAL

\* _execute_hooks, lines 443 and 451: the result returned when a response
\* ends the run
ResultOnStopMutAlwaysBlock(response) == BLOCK
ResultOnStop(response) ==
    IF response.result = BLOCK THEN BLOCK ELSE REQUIRE_APPROVAL

\* _execute_hooks, lines 464-470: current_context after execute raised
ContextAfterRaiseMutPartial(ctx) == [ctx EXCEPT !.content = "partial"]
ContextAfterRaise(ctx) == ctx

\* _execute_hooks, lines 453-462: current_context after a response
ContextAfterMutKeeps(ctx, response) == ctx
ContextAfter(ctx, response) ==
    IF response.result = MODIFY
    THEN [operation |-> ctx.operation, agent_type |-> ctx.agent_type,
          iteration |-> ctx.iteration, target |-> ctx.target,
          content |-> response.modified_content, metadata |-> ctx.metadata]
    ELSE ctx

\* an invocation of hook h: which method, the content it was handed, what
\* came back
Invocation(method, h, outcome) ==
    [method |-> method, hook |-> h, content |-> hp_context.content,
     outcome |-> outcome]

\* ------------------------------------------------ context hygiene: data
\* ContextHealthStatus
HEALTHY == "healthy"
WARNING == "warning"
CRITICAL == "critical"
OVERFLOW == "overflow"

\* ContextThresholds: the defaults, the ratios in percent
DefaultMaxTokens == 128000
WarningPercent == 50
CriticalPercent == 75
OverflowPercent == 90

\* ContextHygieneManager.preservation_rules, in the order of the list
PreservationRules ==
    <<[pattern |-> "task_description", priority |-> 100, max_tokens |-> 500],
      [pattern |-> "goal", priority |-> 100, max_tokens |-> 300],
      [pattern |-> "previous_errors", priority |-> 90, max_tokens |-> 1000],
      [pattern |-> "plan", priority |-> 80, max_tokens |-> 800],
      [pattern |-> "code_files", priority |-> 70, max_tokens |-> 4000],
      [pattern |-> "test_results", priority |-> 60, max_tokens |-> 1000]>>

\* compact: the fields copied as they are
SmallFieldsMutWithAgent ==
    <<"task_id", "iteration", "problem_type", "language", "workspace",
      "current_agent">>
SmallFieldsMutNoTaskId == <<"iteration", "problem_type", "language", "workspace">>
SmallFields ==
    <<"task_id", "iteration", "problem_type", "language", "workspace">>

\* apply_recency_bias: the three zones
BeginningKeys == <<"goal", "task_description", "plan">>
MiddleKeys == <<"dependencies", "subtasks", "_compaction_metadata">>
EndKeys == <<"previous_errors", "test_results", "code_files", "iteration">>

\* _compact_code_files: a file is cut when it has more tokens and more lines
\* than these, to this many lines at its head and at its tail
CodeFileTokenCap == 2000
CodeFileLineCap == 100
CodeFileWindow == 50

\* _compact_test_results: an error message longer than this is cut to it
ErrorMessageCap == 500

\* TokenCounter.count_tokens is tiktoken's encoding; here a text is so many
\* tokens of CharsPerToken characters each, json.dumps spends KeyTokens
\* tokens on a key with its quotes and separators and NullTokens on None, and
\* the markers and the metadata dictionary that compact adds are these many
\* tokens
CharsPerToken == 4
KeyTokens == 3
NullTokens == 1
TruncationMarkerTokens == 6
MiddleMarkerTokens == 8
MiddleMarkerLines == 3
EllipsisChars == 3
MetadataTokens == 30

\* the keys a Context of the orchestrator holds a text or a scalar under
TextKeys ==
    {"task_id", "task_description", "goal", "problem_type", "language",
     "plan", "previous_errors", "workspace", "current_agent", "iteration",
     "subtasks", "dependencies"}

\* no code files, no test results
NoCodeFiles == [files |-> 0, lines |-> 0, line_tokens |-> 0, marked |-> FALSE]
NoTestResults == [essential |-> 0, other |-> 0, error_chars |-> 0]

\* ------------------------------------------- context hygiene: operators
\* the keys of a Context
Keys(ctx) == {ctx.order[i] : i \in 1..Len(ctx.order)}

\* the keys of a list that are in the Context, in the order of the list
Present(list, ctx) ==
    LET In(k) == k \in Keys(ctx) IN SelectSeq(list, In)

\* context[key] = value for a text or scalar of so many tokens (dict
\* assignment: a new key goes to the end)
SetKey(ctx, key, tokens) ==
    [ctx EXCEPT !.order = IF key \in Keys(ctx) THEN @ ELSE Append(@, key),
                !.null = @ \ {key},
                !.tokens[key] = tokens]

\* context[key] = None
SetNone(ctx, key) ==
    [ctx EXCEPT !.order = IF key \in Keys(ctx) THEN @ ELSE Append(@, key),
                !.null = @ \cup {key},
                !.tokens[key] = 0]

\* the least n with n * d >= x
CeilDiv(x, d) == (x + d - 1) \div d

\* count_tokens of one code file, and its number of lines
FileTokens(cf) ==
    cf.lines * cf.line_tokens + (IF cf.marked THEN MiddleMarkerTokens ELSE 0)
FileLines(cf) ==
    cf.lines + (IF cf.marked THEN MiddleMarkerLines ELSE 0)

\* count_tokens of json.dumps of the value under a key
ValueTokens(ctx, key) ==
    IF key \in ctx.null THEN NullTokens
    ELSE CASE key = "code_files" ->
                 ctx.code_files.files * (KeyTokens + FileTokens(ctx.code_files))
           [] key = "test_results" ->
                 ctx.test_results.essential + ctx.test_results.other
                 + CeilDiv(ctx.test_results.error_chars, CharsPerToken)
           [] key = "_compaction_metadata" -> MetadataTokens
           [] OTHER -> ctx.tokens[key]

\* count_tokens(json.dumps(context)): analyze, lines 106-107
RECURSIVE SumTokens(_, _)
SumTokens(ctx, keys) ==
    IF keys = <<>> THEN 0
    ELSE KeyTokens + ValueTokens(ctx, Head(keys)) + SumTokens(ctx, Tail(keys))

TotalTokens(ctx) == SumTokens(ctx, ctx.order)

\* analyze, lines 114-126: the status
Status(ctx, limit) ==
    IF TotalTokens(ctx) * 100 >= OverflowPercent * limit THEN OVERFLOW
    ELSE IF TotalTokens(ctx) * 100 >= CriticalPercent * limit THEN CRITICAL
    ELSE IF TotalTokens(ctx) * 100 >= WarningPercent * limit THEN WARNING
    ELSE HEALTHY

\* suggest_compaction; the test of _manage_context_hygiene, line 352
NeedsCompaction(status) == status \in {CRITICAL, OVERFLOW}

\* compact, line 166: sorted(rules, key=-priority), a stable sort
RECURSIVE InsertByRulePriority(_, _)
InsertByRulePriority(rule, sorted) ==
    IF sorted = <<>> THEN <<rule>>
    ELSE IF Head(sorted).priority >= rule.priority
         THEN <<Head(sorted)>> \o InsertByRulePriority(rule, Tail(sorted))
         ELSE <<rule>> \o sorted

RECURSIVE SortRules(_)
SortRules(rules) ==
    IF rules = <<>> THEN <<>>
    ELSE InsertByRulePriority(rules[Len(rules)],
                              SortRules(SubSeq(rules, 1, Len(rules) - 1)))

\* the patterns of the rules in the order compact walks them
RulePatterns ==
    [i \in 1..Len(PreservationRules) |-> SortRules(PreservationRules)[i].pattern]

\* the max_tokens of the rule of a pattern
RuleMaxTokens(key) ==
    LET rule == CHOOSE r \in {PreservationRules[i] :
                                i \in 1..Len(PreservationRules)} :
                    r.pattern = key
    IN  rule.max_tokens

\* compact, lines 169-176: a text of so many tokens under a rule
TruncateTextMutNoMarker(tokens, cap) ==
    IF tokens > cap THEN cap ELSE tokens
TruncateText(tokens, cap) ==
    IF tokens > cap
    THEN LET truncate_at == (tokens * CharsPerToken * cap) \div tokens
         IN  CeilDiv(truncate_at, CharsPerToken) + TruncationMarkerTokens
    ELSE tokens

\* _compact_code_files
CompactCodeFiles(cf) ==
    IF cf.files = 0 THEN NoCodeFiles
    ELSE IF FileTokens(cf) > CodeFileTokenCap /\ FileLines(cf) > CodeFileLineCap
         THEN [cf EXCEPT !.lines = 2 * CodeFileWindow, !.marked = TRUE]
         ELSE cf

\* _compact_test_results
CompactTestResults(tr) ==
    [essential |-> tr.essential,
     other |-> 0,
     error_chars |-> IF tr.error_chars > ErrorMessageCap
                     THEN ErrorMessageCap + EllipsisChars
                     ELSE tr.error_chars]

\* compact, lines 166-177: the keys copied under a rule, whatever the type of
\* their value
PreservedMutOnlyText(ctx) ==
    LET IsText(k) == k \in Keys(ctx) /\ k \in TextKeys /\ k \notin ctx.null
    IN  SelectSeq(RulePatterns, IsText)
Preserved(ctx) == Present(RulePatterns, ctx)

\* ContextHygieneManager.compact
Compact(ctx) ==
    LET kept == Preserved(ctx) \o Present(SmallFields, ctx)
        keys == {kept[i] : i \in 1..Len(kept)}
        ruled == {RulePatterns[i] : i \in 1..Len(RulePatterns)}
    IN  [order |-> Append(kept, "_compaction_metadata"),
         null |-> ctx.null \cap keys,
         tokens |-> [k \in TextKeys |->
                       IF k \notin keys THEN 0
                       ELSE IF k \in ruled /\ k \notin ctx.null
                            THEN TruncateText(ctx.tokens[k], RuleMaxTokens(k))
                            ELSE ctx.tokens[k]],
         code_files |-> IF "code_files" \in keys
                        THEN CompactCodeFiles(ctx.code_files)
                        ELSE NoCodeFiles,
         test_results |-> IF "test_results" \in keys
                          THEN CompactTestResults(ctx.test_results)
                          ELSE NoTestResults]

\* a sequence back to front
Reversed(list) == [i \in 1..Len(list) |-> list[Len(list) + 1 - i]]

\* apply_recency_bias, lines 234-249: the keys of the three zones that are in
\* the Context, zone after zone
ZonesMutEndBeforeMiddle(ctx) ==
    Present(BeginningKeys, ctx) \o Present(EndKeys, ctx)
    \o Present(MiddleKeys, ctx)
Zones(ctx) ==
    Present(BeginningKeys, ctx) \o Present(MiddleKeys, ctx)
    \o Present(EndKeys, ctx)

\* apply_recency_bias, lines 252-254: the keys not yet in restructured, in the
\* order of the Context
RemainderMutReversed(ctx) ==
    LET Remaining(k) == k \notin {Zones(ctx)[i] : i \in 1..Len(Zones(ctx))}
    IN  Reversed(SelectSeq(ctx.order, Remaining))
RemainderMutDropped(ctx) == <<>>
Remainder(ctx) ==
    LET Remaining(k) == k \notin {Zones(ctx)[i] : i \in 1..Len(Zones(ctx))}
    IN  SelectSeq(ctx.order, Remaining)

\* ContextHygieneManager.apply_recency_bias
ApplyRecencyBias(ctx) ==
    [ctx EXCEPT !.order = Zones(ctx) \o Remainder(ctx)]

\* Orchestrator.__init__, lines 111-123: the Context of a task whose
\* description and goal have so many tokens
InitialContext(description_tokens, goal_tokens) ==
    [order |-> <<"task_id", "task_description", "goal", "problem_type",
                 "language", "plan", "code_files", "test_results",
                 "previous_errors", "workspace", "current_agent">>,
     null |-> {"plan", "workspace"},
     tokens |-> [k \in TextKeys |->
                   CASE k = "task_id" -> 20
                     [] k = "task_description" -> description_tokens
                     [] k = "goal" -> goal_tokens
                     [] k = "problem_type" -> 1
                     [] k = "language" -> 1
                     [] OTHER -> 0],
     code_files |-> NoCodeFiles,
     test_results |-> NoTestResults]

\* --------------------------------------- what agents write to the Context
\* what the task and the agents put into the Context: token counts of the
\* description, the goal, the plan and the root cause, of the planner's lists
\* (empty or not), the code files and the tester's result
DescriptionTokens == {50, 600}
GoalTokens == {20, 303}
PlanTokens == {100, 900}
ListTokens == {1, 40}
RootCauseTokens == {0, 1200}
CodeFileChoices ==
    {[files |-> 1, lines |-> 40, line_tokens |-> 10, marked |-> FALSE],
     [files |-> 1, lines |-> 150, line_tokens |-> 20, marked |-> FALSE],
     [files |-> 1, lines |-> 80, line_tokens |-> 30, marked |-> FALSE],
     [files |-> 60, lines |-> 90, line_tokens |-> 21, marked |-> FALSE]}
TestResultChoices ==
    {[essential |-> 20, other |-> 0, error_chars |-> 0],
     [essential |-> 20, other |-> 300, error_chars |-> 2000]}

\* settings.context_hygiene.max_tokens: the default or a small limit
MaxTokensChoices == {DefaultMaxTokens, 2000}

\* context[key] = value for the code files or the test results
SetCodeFiles(ctx, cf) ==
    [ctx EXCEPT !.order = IF "code_files" \in Keys(ctx) THEN @
                          ELSE Append(@, "code_files"),
                !.code_files = cf]
SetTestResults(ctx, tr) ==
    [ctx EXCEPT !.order = IF "test_results" \in Keys(ctx) THEN @
                          ELSE Append(@, "test_results"),
                !.test_results = tr]

\* ------------------------------------------------- persistence data
\* the task's row before run(): create_task has inserted it
CreatedTask ==
    [status |-> "planning", total_iterations |-> 0, final_code |-> FALSE]

\* no checkpoint.json in the workspace
NoFile == [kind |-> "absent"]
\* a checkpoint.json that write_text left incomplete
PartialFile == [kind |-> "partial"]
\* no StateSaver.save call has returned yet
NoPayload == [kind |-> "none"]
\* no StateSaver.load call has returned yet
NotLoaded == [kind |-> "not loaded"]
\* StateSaver.load returned None
LoadedNone == [kind |-> "None"]

\* the tester has not returned a result yet
NoTestResult ==
    [passed |-> FALSE, test_file |-> "none", error_message |-> "None",
     parsed |-> FALSE]

\* ------------------------------------------------- hook and analyzer data
\* TokenBudgetHook.__init__: the default of max_tokens
DefaultTokenBudget == 50000

\* IterationGuardHook.__init__: the default of max_same_error
DefaultMaxSameError == 3

\* IterationGuardHook.execute, line 317: the window of the history
HistoryWindow == 5

\* an error text: its wording, the number in its "line N" part and the path
\* in its 'File "..."' part ("": the text has no such part), whether white
\* space surrounds it, and what follows its first 200 characters
ErrorText(message, line, path, padded, tail) ==
    [message |-> message, line |-> line, path |-> path, padded |-> padded,
     tail |-> tail]

\* the empty string
EmptyError == ErrorText("", "", "", FALSE, "")

\* no call yet
NoBudgetCall == [estimated |-> -1, used |-> -1, result |-> "none"]
NoGuardCall == [error |-> EmptyError, history |-> <<>>, result |-> "none"]
NoExtractCall == [kind |-> "no call"]
\* no pattern stored
NoPattern == [kind |-> "none"]

\* ------------------------------------------------------- orchestrator
\* the while condition of run()
LoopConditionMutOffByOne == current_iteration <= max_iterations
LoopCondition == current_iteration < max_iterations

\* self.current_iteration += 1
IncrementIteration(i) == i + 1

\* state assigned after the coding phase returned
AfterCodingMutAlwaysReview ==
    REVIEWING
AfterCoding ==
    IF enable_code_review THEN REVIEWING
    ELSE IF enable_security_audit THEN AUDITING
    ELSE TESTING

\* state assigned after the review phase returned
AfterReviewingMutSkipAudit ==
    TESTING
AfterReviewing ==
    IF enable_security_audit THEN AUDITING ELSE TESTING

\* state assigned after the testing phase returned `passed`
AfterTesting(passed) ==
    IF passed THEN SUCCESS ELSE REFLECTING

\* the try block of run(): the state assigned when phase s returned
NextState(s, passed) ==
    CASE s = PLANNING -> CODING
      [] s = CODING -> AfterCoding
      [] s = REVIEWING -> AfterReviewing
      [] s = AUDITING -> TESTING
      [] s = TESTING -> AfterTesting(passed)
      [] s = REFLECTING -> CODING
      [] OTHER -> s

\* try/except of run(): a phase that raises skips the assignment of state
StateAfterPassMutAssignFirst(s, raised, passed) == NextState(s, passed)
StateAfterPass(s, raised, passed) ==
    IF raised THEN s ELSE NextState(s, passed)

\* Orchestrator._finalize: the returned dictionary
FinalizeMutNoPausedBranch ==
    IF state = SUCCESS
    THEN [success |-> TRUE, iterations |-> current_iteration,
          code_files |-> completed[CODING], workspace |-> completed[CODING]]
    ELSE [success |-> FALSE, status |-> "failed",
          iterations |-> current_iteration,
          message |-> "Maximum iterations reached"]
Finalize ==
    IF state = SUCCESS
    THEN [success |-> TRUE, iterations |-> current_iteration,
          code_files |-> completed[CODING], workspace |-> completed[CODING]]
    ELSE IF state = PAUSED
    THEN [success |-> FALSE, status |-> "paused",
          iterations |-> current_iteration,
          message |-> "Task paused by circuit breaker"]
    ELSE [success |-> FALSE, status |-> "failed",
          iterations |-> current_iteration,
          message |-> "Maximum iterations reached"]

\* Orchestrator.__init__ (and CircuitBreaker.__init__) for every configuration
Init ==
    /\ max_iterations \in 0..MaxIterations
    /\ enable_code_review \in BOOLEAN
    /\ enable_security_audit \in BOOLEAN
    /\ warning_threshold \in Thresholds
    /\ hard_stop \in Thresholds
    /\ user_confirmed = FALSE
    /\ state = INIT
    /\ current_iteration = 0
    /\ pc = "init"
    /\ result = <<>>
    /\ cb_arg = -1
    /\ cb_ret = FALSE
    /\ cb_op = "none"
    /\ warnings_logged = 0
    /\ was_reset = FALSE
    /\ stop_seen = FALSE
    /\ exit_reason = "none"
    /\ dispatched = [p \in Phases |-> 0]
    /\ completed = [p \in Phases |-> 0]
    /\ last_dispatched = "none"
    /\ last_raised = FALSE
    /\ last_passed = FALSE
    /\ hooks = <<>>
    /\ hook_enabled = [h \in HookIds |-> TRUE]
    /\ registration_order = <<>>
    /\ sb_pc = "idle"
    /\ sb_command = "none"
    /\ sb_docker = FALSE
    /\ sb_hook_result = "none"
    /\ sb_spawned = <<>>
    /\ sb_post_runs = 0
    /\ sb_returncode = -1
    /\ sb_exception = "none"
    /\ test_result = NoTestResult
    /\ tester_pc = "idle"
    /\ context = InitialContext(50, 20)
    /\ max_tokens = DefaultMaxTokens
    /\ hygiene_pc = "init"
    /\ snapshot_status = "none"
    /\ context_before = InitialContext(50, 20)
    /\ context_unordered = InitialContext(50, 20)
    /\ db_task = CreatedTask
    /\ patterns = 0
    /\ failures = {}
    /\ checkpoint_file = NoFile
    /\ checkpoint_log = {}
    /\ save_raised = FALSE
    /\ failed_write = "none"
    /\ saved = NoPayload
    /\ loaded = NotLoaded
    /\ stored_pattern = NoPattern
    /\ planner_dependencies = 0
    /\ coder_files = NoCodeFiles
    /\ tokens_used = 0
    /\ budget_ceiling = DefaultTokenBudget
    /\ budget_call = NoBudgetCall
    /\ max_same_error = DefaultMaxSameError
    /\ error_history = <<>>
    /\ guard_call = NoGuardCall
    /\ pass_trace = <<>>
    /\ iteration_records = <<>>
    /\ run_hook_result = "none"
    /\ previous_error = EmptyError
    /\ failure_cycles = {}
    /\ extract_call = NoExtractCall
    /\ hp_pc = "idle"
    /\ hp_phase = "none"
    /\ hp_input = NoContext
    /\ hp_index = 0
    /\ hp_context = NoContext
    /\ hp_warnings = <<>>
    /\ hp_result = "none"
    /\ hp_trace = <<>>

\* run(), lines 211-215: self.state = PLANNING
RunStart ==
    /\ pc = "init"
    /\ state' = PLANNING
    /\ pc' = "loop"
    /\ UNCHANGED <<config, breaker, current_iteration, result, stop_seen,
                   exit_reason, dispatched, completed, last_dispatched,
                   last_raised, last_passed>>
    /\ UNCHANGED not_run

\* run(), lines 217-245: the while condition holds; the counter is incremented,
\* context hygiene and the start-of-iteration hooks run (their result is not
\* used for control flow)
BeginPass ==
    /\ pc = "loop"
    /\ LoopCondition
    /\ current_iteration' = IncrementIteration(current_iteration)
    /\ pc' = "breaker"
    /\ UNCHANGED <<config, breaker, state, result, stop_seen, exit_reason,
                   dispatched, completed, last_dispatched, last_raised,
                   last_passed>>
    /\ UNCHANGED not_run

\* run(), line 217: the while condition fails, the loop is left
LoopExhausted ==
    /\ pc = "loop"
    /\ ~LoopCondition
    /\ exit_reason' = "exhausted"
    /\ pc' = "finalize"
    /\ UNCHANGED <<config, breaker, state, current_iteration, result,
                   stop_seen, dispatched, completed, last_dispatched,
                   last_raised, last_passed>>
    /\ UNCHANGED not_run

\* run(), lines 247-261: the circuit-breaker check
CheckBreaker ==
    /\ pc = "breaker"
    /\ BreakerCall(current_iteration)
    /\ IF cb_ret'
       THEN /\ state' = PAUSED
            /\ stop_seen' = TRUE
            /\ exit_reason' = "breaker"
            /\ pc' = "finalize"
       ELSE /\ pc' = "dispatch"
            /\ UNCHANGED <<state, stop_seen, exit_reason>>
    /\ UNCHANGED <<config, current_iteration, result, dispatched, completed,
                   last_dispatched, last_raised, last_passed>>
    /\ UNCHANGED not_run

\* run(), lines 264-311: the phase of the current state is called; it returns
\* (the tester with its report) or raises
Dispatch(raised, passed) ==
    /\ pc = "dispatch"
    /\ state \in Phases
    /\ dispatched' = [dispatched EXCEPT ![state] = @ + 1]
    /\ completed' = IF raised THEN completed
                    ELSE [completed EXCEPT ![state] = @ + 1]
    /\ last_dispatched' = state
    /\ last_raised' = raised
    /\ last_passed' = IF state = TESTING /\ ~raised THEN passed ELSE last_passed
    /\ state' = StateAfterPass(state, raised, passed)
    /\ IF state' = SUCCESS
       THEN /\ exit_reason' = "success"
            /\ pc' = "finalize"
       ELSE /\ pc' = "loop"
            /\ UNCHANGED exit_reason
    /\ UNCHANGED <<config, breaker, current_iteration, result, stop_seen>>
    /\ UNCHANGED not_run

\* the phase function returns normally (a tester that reports not passed)
PhaseReturns ==
    Dispatch(FALSE, FALSE)

\* the tester returns passed=True
TesterPasses ==
    /\ state = TESTING
    /\ Dispatch(FALSE, TRUE)

\* the phase function raises
PhaseRaises ==
    Dispatch(TRUE, FALSE)

\* run(), line 338: return self._finalize()
Return ==
    /\ pc = "finalize"
    /\ result' = Finalize
    /\ pc' = "done"
    /\ UNCHANGED <<config, breaker, state, current_iteration, stop_seen,
                   exit_reason, dispatched, completed, last_dispatched,
                   last_raised, last_passed>>
    /\ UNCHANGED not_run

Next ==
    \/ RunStart
    \/ BeginPass
    \/ LoopExhausted
    \/ CheckBreaker
    \/ PhaseReturns
    \/ TesterPasses
    \/ PhaseRaises
    \/ Return

Spec == Init /\ [][Next]_vars

\* run() is a sequential procedure: it keeps executing until it returns
FairSpec == Spec /\ WF_vars(Next)

\* --------------------------------------- the circuit breaker on its own
\* CircuitBreaker.__init__ for every pair of thresholds; no orchestrator runs
InitBreaker ==
    /\ warning_threshold \in Thresholds
    /\ hard_stop \in Thresholds
    /\ user_confirmed = FALSE
    /\ cb_arg = -1
    /\ cb_ret = FALSE
    /\ cb_op = "none"
    /\ warnings_logged = 0
    /\ was_reset = FALSE
    /\ max_iterations = 0
    /\ enable_code_review = FALSE
    /\ enable_security_audit = FALSE
    /\ state = INIT
    /\ current_iteration = 0
    /\ pc = "init"
    /\ result = <<>>
    /\ stop_seen = FALSE
    /\ exit_reason = "none"
    /\ dispatched = [p \in Phases |-> 0]
    /\ completed = [p \in Phases |-> 0]
    /\ last_dispatched = "none"
    /\ last_raised = FALSE
    /\ last_passed = FALSE
    /\ hooks = <<>>
    /\ hook_enabled = [h \in HookIds |-> TRUE]
    /\ registration_order = <<>>
    /\ sb_pc = "idle"
    /\ sb_command = "none"
    /\ sb_docker = FALSE
    /\ sb_hook_result = "none"
    /\ sb_spawned = <<>>
    /\ sb_post_runs = 0
    /\ sb_returncode = -1
    /\ sb_exception = "none"
    /\ test_result = NoTestResult
    /\ tester_pc = "idle"
    /\ context = InitialContext(50, 20)
    /\ max_tokens = DefaultMaxTokens
    /\ hygiene_pc = "init"
    /\ snapshot_status = "none"
    /\ context_before = InitialContext(50, 20)
    /\ context_unordered = InitialContext(50, 20)
    /\ db_task = CreatedTask
    /\ patterns = 0
    /\ failures = {}
    /\ checkpoint_file = NoFile
    /\ checkpoint_log = {}
    /\ save_raised = FALSE
    /\ failed_write = "none"
    /\ saved = NoPayload
    /\ loaded = NotLoaded
    /\ stored_pattern = NoPattern
    /\ planner_dependencies = 0
    /\ coder_files = NoCodeFiles
    /\ tokens_used = 0
    /\ budget_ceiling = DefaultTokenBudget
    /\ budget_call = NoBudgetCall
    /\ max_same_error = DefaultMaxSameError
    /\ error_history = <<>>
    /\ guard_call = NoGuardCall
    /\ pass_trace = <<>>
    /\ iteration_records = <<>>
    /\ run_hook_result = "none"
    /\ previous_error = EmptyError
    /\ failure_cycles = {}
    /\ extract_call = NoExtractCall
    /\ hp_pc = "idle"
    /\ hp_phase = "none"
    /\ hp_input = NoContext
    /\ hp_index = 0
    /\ hp_context = NoContext
    /\ hp_warnings = <<>>
    /\ hp_result = "none"
    /\ hp_trace = <<>>

\* a caller invokes should_stop with any iteration count
ShouldStopCall ==
    \E i \in 0..MaxCallArg :
        /\ BreakerCall(i)
        /\ UNCHANGED <<config, orch, not_run>>

\* CircuitBreaker.reset
Reset ==
    /\ user_confirmed' = FALSE
    /\ cb_op' = "reset"
    /\ warnings_logged' = 0
    /\ was_reset' = TRUE
    /\ UNCHANGED <<config, orch, not_run, cb_arg, cb_ret>>

NextBreaker ==
    \/ ShouldStopCall
    \/ Reset

SpecBreaker == InitBreaker /\ [][NextBreaker]_vars

\* ------------------------------------------- the hook registry on its own
\* HookRegistry.__init__, with the hook objects constructed (enabled = True);
\* no orchestrator runs
InitHooks ==
    /\ hooks = <<>>
    /\ hook_enabled = [h \in HookIds |-> TRUE]
    /\ registration_order = <<>>
    /\ sb_pc = "idle"
    /\ sb_command = "none"
    /\ sb_docker = FALSE
    /\ sb_hook_result = "none"
    /\ sb_spawned = <<>>
    /\ sb_post_runs = 0
    /\ sb_returncode = -1
    /\ sb_exception = "none"
    /\ test_result = NoTestResult
    /\ tester_pc = "idle"
    /\ context = InitialContext(50, 20)
    /\ max_tokens = DefaultMaxTokens
    /\ hygiene_pc = "init"
    /\ snapshot_status = "none"
    /\ context_before = InitialContext(50, 20)
    /\ context_unordered = InitialContext(50, 20)
    /\ db_task = CreatedTask
    /\ patterns = 0
    /\ failures = {}
    /\ checkpoint_file = NoFile
    /\ checkpoint_log = {}
    /\ save_raised = FALSE
    /\ failed_write = "none"
    /\ saved = NoPayload
    /\ loaded = NotLoaded
    /\ stored_pattern = NoPattern
    /\ planner_dependencies = 0
    /\ coder_files = NoCodeFiles
    /\ tokens_used = 0
    /\ budget_ceiling = DefaultTokenBudget
    /\ budget_call = NoBudgetCall
    /\ max_same_error = DefaultMaxSameError
    /\ error_history = <<>>
    /\ guard_call = NoGuardCall
    /\ pass_trace = <<>>
    /\ iteration_records = <<>>
    /\ run_hook_result = "none"
    /\ previous_error = EmptyError
    /\ failure_cycles = {}
    /\ extract_call = NoExtractCall
    /\ hp_pc = "idle"
    /\ hp_phase = "none"
    /\ hp_input = NoContext
    /\ hp_index = 0
    /\ hp_context = NoContext
    /\ hp_warnings = <<>>
    /\ hp_result = "none"
    /\ hp_trace = <<>>
    /\ max_iterations = 0
    /\ enable_code_review = FALSE
    /\ enable_security_audit = FALSE
    /\ warning_threshold = DefaultWarningThreshold
    /\ hard_stop = DefaultHardStop
    /\ user_confirmed = FALSE
    /\ cb_arg = -1
    /\ cb_ret = FALSE
    /\ cb_op = "none"
    /\ warnings_logged = 0
    /\ was_reset = FALSE
    /\ state = INIT
    /\ current_iteration = 0
    /\ pc = "init"
    /\ result = <<>>
    /\ stop_seen = FALSE
    /\ exit_reason = "none"
    /\ dispatched = [p \in Phases |-> 0]
    /\ completed = [p \in Phases |-> 0]
    /\ last_dispatched = "none"
    /\ last_raised = FALSE
    /\ last_passed = FALSE

\* the tuple returned by the previous pipeline run is no longer held by anyone
\* once the registry is called again
ResultDropped ==
    /\ hp_pc # "running"
    /\ sb_pc \in {"idle", "done"}
    /\ hp_pc' = "idle"
    /\ hp_phase' = "none"
    /\ hp_input' = NoContext
    /\ hp_index' = 0
    /\ hp_context' = NoContext
    /\ hp_warnings' = <<>>
    /\ hp_result' = "none"
    /\ hp_trace' = <<>>

\* HookRegistry.register (of a hook object that is not in the list)
Register ==
    \E h \in HookIds \ Registered(hooks) :
        /\ ResultDropped
        /\ hooks' = SortByPriority(Append(hooks, h))
        /\ registration_order' = Append(registration_order, h)
        /\ UNCHANGED <<hook_enabled, config, orch, breaker, sandbox, hygiene,
                   persistence, others>>

\* HookRegistry.unregister
Unregister ==
    \E h \in HookIds :
        /\ ResultDropped
        /\ hooks' = WithoutName(hooks, HookName(h))
        /\ registration_order' = WithoutName(registration_order, HookName(h))
        /\ UNCHANGED <<hook_enabled, config, orch, breaker, sandbox, hygiene,
                   persistence, others>>

\* HookRegistry.enable
Enable ==
    \E h \in HookIds :
        /\ ResultDropped
        /\ hook_enabled' = WithEnabled(hook_enabled, hooks, HookName(h), TRUE)
        /\ UNCHANGED <<hooks, registration_order, config, orch, breaker, sandbox, hygiene,
                   persistence, others>>

\* HookRegistry.disable
Disable ==
    \E h \in HookIds :
        /\ ResultDropped
        /\ hook_enabled' = WithEnabled(hook_enabled, hooks, HookName(h), FALSE)
        /\ UNCHANGED <<hooks, registration_order, config, orch, breaker, sandbox, hygiene,
                   persistence, others>>

\* _execute_hooks, lines 409-410: a run starts
ExecuteHooks(phase, ctx) ==
    /\ hp_pc # "running"
    /\ hp_pc' = "running"
    /\ hp_phase' = phase
    /\ hp_input' = ctx
    /\ hp_index' = 1
    /\ hp_context' = ctx
    /\ hp_warnings' = <<>>
    /\ hp_result' = "none"
    /\ hp_trace' = <<>>
    /\ UNCHANGED <<registry, config, orch, breaker, hygiene,
                   persistence, others>>

\* HookRegistry.execute_pre_hooks, called directly
ExecutePreHooks ==
    /\ sb_pc \in {"idle", "done"}
    /\ \E ctx \in HookContexts : ExecuteHooks(PRE_EXECUTION, ctx)
    /\ UNCHANGED sandbox

\* HookRegistry.execute_post_hooks, called directly
ExecutePostHooks ==
    /\ sb_pc \in {"idle", "done"}
    /\ \E ctx \in HookContexts : ExecuteHooks(POST_EXECUTION, ctx)
    /\ UNCHANGED sandbox

\* the for loop of _execute_hooks stands at a hook
AtHook ==
    /\ hp_pc = "running"
    /\ hp_index <= Len(hooks)

\* lines 413-414: a disabled hook or one of the other phase: continue
HookPassedOver ==
    /\ AtHook
    /\ PassedOver(hooks[hp_index], hp_phase)
    /\ hp_index' = hp_index + 1
    /\ UNCHANGED <<hp_pc, hp_phase, hp_input, hp_context, hp_warnings,
                   hp_result, hp_trace>>
    /\ UNCHANGED <<registry, config, orch, breaker, sandbox, hygiene,
                   persistence, others>>

\* lines 416-417: should_run(current_context) is false: continue
HookDeclines ==
    /\ AtHook
    /\ ~PassedOver(hooks[hp_index], hp_phase)
    /\ ~ShouldRun(hooks[hp_index], hp_context)
    /\ hp_trace' = Append(hp_trace,
                          Invocation("should_run", hooks[hp_index], "false"))
    /\ hp_index' = hp_index + 1
    /\ UNCHANGED <<hp_pc, hp_phase, hp_input, hp_context, hp_warnings,
                   hp_result>>
    /\ UNCHANGED <<registry, config, orch, breaker, sandbox, hygiene,
                   persistence, others>>

\* lines 416-462: should_run is true and execute returns a response
HookExecutes ==
    /\ AtHook
    /\ ~PassedOver(hooks[hp_index], hp_phase)
    /\ ShouldRun(hooks[hp_index], hp_context)
    /\ \E response \in HookResponses(hooks[hp_index]) :
        /\ hp_trace' = hp_trace \o
              <<Invocation("should_run", hooks[hp_index], "true"),
                Invocation("execute", hooks[hp_index], response.result)>>
        /\ hp_warnings' = WarningsAfter(hp_warnings, hooks[hp_index], response)
        /\ IF StopsPipeline(response)
           THEN /\ hp_pc' = "returned"
                /\ hp_result' = ResultOnStop(response)
                /\ UNCHANGED <<hp_context, hp_index>>
           ELSE /\ hp_context' = ContextAfter(hp_context, response)
                /\ hp_index' = hp_index + 1
                /\ UNCHANGED <<hp_pc, hp_result>>
    /\ UNCHANGED <<hp_phase, hp_input>>
    /\ UNCHANGED <<registry, config, orch, breaker, sandbox, hygiene,
                   persistence, others>>

\* lines 416-470: should_run is true and execute raises: logged, continue
HookRaises ==
    /\ AtHook
    /\ ~PassedOver(hooks[hp_index], hp_phase)
    /\ ShouldRun(hooks[hp_index], hp_context)
    /\ hp_trace' = hp_trace \o
          <<Invocation("should_run", hooks[hp_index], "true"),
            Invocation("execute", hooks[hp_index], "raised")>>
    /\ hp_context' = ContextAfterRaise(hp_context)
    /\ hp_index' = hp_index + 1
    /\ UNCHANGED <<hp_pc, hp_phase, hp_input, hp_warnings, hp_result>>
    /\ UNCHANGED <<registry, config, orch, breaker, sandbox, hygiene,
                   persistence, others>>

\* line 472: the tag returned when the for loop has run through the list
ResultAtEndMutLastResponse(trace) ==
    IF /\ Len(trace) > 0
       /\ trace[Len(trace)].method = "execute"
       /\ trace[Len(trace)].outcome \in {WARN, MODIFY}
    THEN trace[Len(trace)].outcome
    ELSE ALLOW
ResultAtEnd(trace) == ALLOW

\* line 472: the list is exhausted: return (ALLOW, current_context, all_warnings)
PipelineEnds ==
    /\ hp_pc = "running"
    /\ hp_index > Len(hooks)
    /\ hp_pc' = "returned"
    /\ hp_result' = ResultAtEnd(hp_trace)
    /\ UNCHANGED <<hp_phase, hp_input, hp_index, hp_context, hp_warnings,
                   hp_trace>>
    /\ UNCHANGED <<registry, config, orch, breaker, sandbox, hygiene,
                   persistence, others>>

NextHooks ==
    \/ Register
    \/ Unregister
    \/ Enable
    \/ Disable
    \/ ExecutePreHooks
    \/ ExecutePostHooks
    \/ HookPassedOver
    \/ HookDeclines
    \/ HookExecutes
    \/ HookRaises
    \/ PipelineEnds

SpecHooks == InitHooks /\ [][NextHooks]_vars

\* ------------------------------------------- the sandbox's command path
\* the commands handed to _run_command, joined with blanks
Commands == {"rm -rf /", "python -m pytest"}

\* _run_command, lines 128-135: the context of the pre-execution hooks
CommandContext(command) ==
    [operation |-> "execute_command", agent_type |-> "sandbox", iteration |-> 0,
     target |-> "workspace", content |-> command, metadata |-> "metadata"]

\* _execute_post_hooks, lines 211-218: the context of the post-execution hooks
CompletedContext ==
    [operation |-> "command_completed", agent_type |-> "sandbox",
     iteration |-> 0, target |-> "workspace", content |-> "completed",
     metadata |-> "metadata"]

\* _run_command, line 144: the command is refused
BlockedMutNever(hook_result) == FALSE
Blocked(hook_result) == hook_result = BLOCK

\* _run_command, lines 172-202: the processes a command that is not refused
\* starts. With Docker: the container; for python with an unseen image the
\* pytest probe container first, then the container or, the probe failing,
\* the local process; the local process alone when the image is known to lack
\* pytest. Without Docker: the local process
Spawns ==
    IF sb_docker
    THEN {<<"docker">>, <<"docker", "docker">>, <<"docker", "subprocess">>,
          <<"subprocess">>}
    ELSE {<<"subprocess">>}

\* return codes of a process
ReturnCodes == {0, 1}

\* what subprocess.run raises: the timeout, or anything else (a missing
\* executable, an OS error)
CommandExceptions == {"TimeoutExpired", "Exception"}

\* _run_command_and_parse_pytest, lines 259-274: the except clauses
CaughtMutOnlyTimeout(exception) == exception = "TimeoutExpired"
Caught(exception) == exception \in {"TimeoutExpired", "Exception"}

\* _run_command_and_parse_pytest: the returned dictionary
PytestResult(exception, returncode) ==
    CASE exception = "TimeoutExpired" ->
            [passed |-> FALSE, test_file |-> "test_file",
             error_message |-> "Test execution timed out", parsed |-> FALSE]
      [] exception = "Exception" ->
            [passed |-> FALSE, test_file |-> "test_file",
             error_message |-> "str(e)", parsed |-> FALSE]
      [] OTHER ->
            [passed |-> returncode = 0, test_file |-> "test_file",
             error_message |-> IF returncode # 0 THEN "stderr" ELSE "None",
             parsed |-> TRUE]

\* the lists register calls can have built: every hook at most once, in
\* priority order
Registries ==
    {list \in UNION {[1..n -> HookIds] : n \in 0..Cardinality(HookIds)} :
        /\ \A i, j \in 1..Len(list) : (list[i] = list[j]) => (i = j)
        /\ SortByPriority(list) = list}

\* SandboxManager.__init__ with a registry handed in (its hooks registered in
\* list order, all enabled); Docker available or not
InitSandbox ==
    /\ hooks \in Registries
    /\ hook_enabled = [h \in HookIds |-> TRUE]
    /\ registration_order = hooks
    /\ sb_pc = "idle"
    /\ sb_command = "none"
    /\ sb_docker \in BOOLEAN
    /\ sb_hook_result = "none"
    /\ sb_spawned = <<>>
    /\ sb_post_runs = 0
    /\ sb_returncode = -1
    /\ sb_exception = "none"
    /\ test_result = NoTestResult
    /\ tester_pc = "idle"
    /\ context = InitialContext(50, 20)
    /\ max_tokens = DefaultMaxTokens
    /\ hygiene_pc = "init"
    /\ snapshot_status = "none"
    /\ context_before = InitialContext(50, 20)
    /\ context_unordered = InitialContext(50, 20)
    /\ db_task = CreatedTask
    /\ patterns = 0
    /\ failures = {}
    /\ checkpoint_file = NoFile
    /\ checkpoint_log = {}
    /\ save_raised = FALSE
    /\ failed_write = "none"
    /\ saved = NoPayload
    /\ loaded = NotLoaded
    /\ stored_pattern = NoPattern
    /\ planner_dependencies = 0
    /\ coder_files = NoCodeFiles
    /\ tokens_used = 0
    /\ budget_ceiling = DefaultTokenBudget
    /\ budget_call = NoBudgetCall
    /\ max_same_error = DefaultMaxSameError
    /\ error_history = <<>>
    /\ guard_call = NoGuardCall
    /\ pass_trace = <<>>
    /\ iteration_records = <<>>
    /\ run_hook_result = "none"
    /\ previous_error = EmptyError
    /\ failure_cycles = {}
    /\ extract_call = NoExtractCall
    /\ hp_pc = "idle"
    /\ hp_phase = "none"
    /\ hp_input = NoContext
    /\ hp_index = 0
    /\ hp_context = NoContext
    /\ hp_warnings = <<>>
    /\ hp_result = "none"
    /\ hp_trace = <<>>
    /\ max_iterations = 0
    /\ enable_code_review = FALSE
    /\ enable_security_audit = FALSE
    /\ warning_threshold = DefaultWarningThreshold
    /\ hard_stop = DefaultHardStop
    /\ user_confirmed = FALSE
    /\ cb_arg = -1
    /\ cb_ret = FALSE
    /\ cb_op = "none"
    /\ warnings_logged = 0
    /\ was_reset = FALSE
    /\ state = TESTING
    /\ current_iteration = 0
    /\ pc = "init"
    /\ result = <<>>
    /\ stop_seen = FALSE
    /\ exit_reason = "none"
    /\ dispatched = [p \in Phases |-> 0]
    /\ completed = [p \in Phases |-> 0]
    /\ last_dispatched = "none"
    /\ last_raised = FALSE
    /\ last_passed = FALSE

\* _run_command, lines 125-137: up to the call of execute_pre_hooks
RunCommand ==
    /\ sb_pc \in {"idle", "done"}
    /\ \E command \in Commands :
        /\ sb_command' = command
        /\ ExecuteHooks(PRE_EXECUTION, CommandContext(command))
    /\ sb_pc' = "pre_hooks"
    /\ sb_hook_result' = "none"
    /\ sb_spawned' = <<>>
    /\ sb_post_runs' = 0
    /\ sb_returncode' = -1
    /\ sb_exception' = "none"
    /\ test_result' = NoTestResult
    /\ tester_pc' = "idle"
    /\ UNCHANGED sb_docker

\* lines 137-154: the pre-hooks returned BLOCK: CompletedProcess(returncode=1)
CommandBlocked ==
    /\ sb_pc = "pre_hooks"
    /\ hp_pc = "returned"
    /\ Blocked(hp_result)
    /\ sb_hook_result' = hp_result
    /\ sb_returncode' = 1
    /\ sb_pc' = "done"
    /\ UNCHANGED <<sb_command, sb_docker, sb_spawned, sb_post_runs,
                   sb_exception, test_result, tester_pc>>
    /\ UNCHANGED <<registry, pipeline, config, orch, breaker, hygiene,
                   persistence, others>>

\* lines 137-203 and 205-218: the pre-hooks returned anything else: the command
\* runs to its end and _execute_post_hooks calls execute_post_hooks
CommandRuns ==
    /\ sb_pc = "pre_hooks"
    /\ hp_pc = "returned"
    /\ ~Blocked(hp_result)
    /\ sb_hook_result' = hp_result
    /\ sb_spawned' \in Spawns
    /\ sb_returncode' \in ReturnCodes
    /\ sb_post_runs' = sb_post_runs + 1
    /\ sb_pc' = "post_hooks"
    /\ hp_pc' = "running"
    /\ hp_phase' = POST_EXECUTION
    /\ hp_input' = CompletedContext
    /\ hp_index' = 1
    /\ hp_context' = CompletedContext
    /\ hp_warnings' = <<>>
    /\ hp_result' = "none"
    /\ hp_trace' = <<>>
    /\ UNCHANGED <<sb_command, sb_docker, sb_exception, test_result,
                   tester_pc>>
    /\ UNCHANGED <<registry, config, orch, breaker, hygiene,
                   persistence, others>>

\* lines 196-202: subprocess.run raises (TimeoutExpired, a missing
\* executable): _run_command is left by the exception
CommandRaises ==
    /\ sb_pc = "pre_hooks"
    /\ hp_pc = "returned"
    /\ ~Blocked(hp_result)
    /\ sb_hook_result' = hp_result
    /\ sb_spawned' \in {spawned \in Spawns : spawned[Len(spawned)] = "subprocess"}
    /\ sb_exception' \in CommandExceptions
    /\ sb_pc' = "done"
    /\ UNCHANGED <<sb_command, sb_docker, sb_post_runs, sb_returncode,
                   test_result, tester_pc>>
    /\ UNCHANGED <<registry, pipeline, config, orch, breaker, hygiene,
                   persistence, others>>

\* _execute_post_hooks, lines 220-225: the post-hooks returned, whatever their
\* result: the process's result is returned
CommandReturns ==
    /\ sb_pc = "post_hooks"
    /\ hp_pc = "returned"
    /\ sb_pc' = "done"
    /\ UNCHANGED <<sb_command, sb_docker, sb_hook_result, sb_spawned,
                   sb_post_runs, sb_returncode, sb_exception, test_result,
                   tester_pc>>
    /\ UNCHANGED <<registry, pipeline, config, orch, breaker, hygiene,
                   persistence, others>>

\* _run_command_and_parse_pytest, lines 259-289: _run_command has returned or
\* raised; an exception no except clause names goes on to the caller
ParsePytest ==
    /\ sb_pc = "done"
    /\ tester_pc = "idle"
    /\ IF sb_exception = "none" \/ Caught(sb_exception)
       THEN /\ test_result' = PytestResult(sb_exception, sb_returncode)
            /\ tester_pc' = "parsed"
       ELSE /\ tester_pc' = "tester_raised"
            /\ UNCHANGED test_result
    /\ UNCHANGED <<sb_pc, sb_command, sb_docker, sb_hook_result, sb_spawned,
                   sb_post_runs, sb_returncode, sb_exception>>
    /\ UNCHANGED <<registry, pipeline, config, orch, breaker, hygiene,
                   persistence, others>>

\* what the testing phase leaves alone in the run
outside_testing ==
    <<current_iteration, pc, result, stop_seen, exit_reason, dispatched,
      completed, last_dispatched, last_raised, last_passed, max_tokens,
      hygiene_pc, snapshot_status, context_before, context_unordered>>

\* _execute_testing_phase, lines 427-454, and run(), lines 291-297: the tester
\* returned its result; it goes into the Context, the iteration row is
\* updated and the state follows the result's `passed`
TestingPhaseReturns ==
    /\ tester_pc = "parsed"
    /\ state = TESTING
    /\ \E tr \in TestResultChoices : context' = SetTestResults(context, tr)
    /\ state' = StateAfterPass(TESTING, FALSE, test_result.passed)
    /\ tester_pc' = "phase_returned"
    /\ UNCHANGED <<sb_pc, sb_command, sb_docker, sb_hook_result, sb_spawned,
                   sb_post_runs, sb_returncode, sb_exception, test_result>>
    /\ UNCHANGED <<registry, pipeline, config, breaker, persistence, others>>
    /\ UNCHANGED outside_testing

\* _execute_testing_phase, lines 427-439, and run(), lines 303-311: the tester
\* raised, or update_iteration raised after the result went into the Context;
\* the except branch of run() keeps the state
TestingPhaseRaises ==
    /\ \/ /\ tester_pc = "tester_raised"
          /\ UNCHANGED context
       \/ /\ tester_pc = "parsed"
          /\ \E tr \in TestResultChoices :
                context' = SetTestResults(context, tr)
    /\ state = TESTING
    /\ state' = StateAfterPass(TESTING, TRUE, test_result.passed)
    /\ tester_pc' = "phase_raised"
    /\ UNCHANGED <<sb_pc, sb_command, sb_docker, sb_hook_result, sb_spawned,
                   sb_post_runs, sb_returncode, sb_exception, test_result>>
    /\ UNCHANGED <<registry, pipeline, config, breaker, persistence, others>>
    /\ UNCHANGED outside_testing

NextSandbox ==
    \/ HookPassedOver
    \/ HookDeclines
    \/ HookExecutes
    \/ HookRaises
    \/ PipelineEnds
    \/ RunCommand
    \/ CommandBlocked
    \/ CommandRuns
    \/ CommandRaises
    \/ CommandReturns
    \/ ParsePytest
    \/ TestingPhaseReturns
    \/ TestingPhaseRaises

SpecSandbox == InitSandbox /\ [][NextSandbox]_vars

\* ------------------------------------------------- the checkpoint file
\* a value of the Context as Python holds it: its type and its text
UuidValue(text) == [type |-> "UUID", text |-> text]
StrValue(text) == [type |-> "str", text |-> text]

\* the types json.dumps writes without its `default`
JsonNativeTypes == {"str", "int", "bool", "NoneType"}

\* json.dumps(..., default=str) followed by json.loads, on one value: a value
\* that JSON has no form for is written, and read back, as its str()
JsonDefault(v) ==
    IF v.type \in JsonNativeTypes THEN v ELSE StrValue(v.text)

\* the Context as save receives it from _save_checkpoint: the task id is the
\* UUID handed to Orchestrator.__init__, everything else is JSON-native
SaverView(ctx) == [task_id |-> UuidValue("task"), rest |-> ctx]

\* StateSaver.save, lines 21-27: the text written to checkpoint.json, held as
\* the value json.loads makes of it
DumpsMutKeepsOldFile(state_tag, iteration, ctx) ==
    IF checkpoint_file.kind = "json" THEN checkpoint_file
    ELSE [kind |-> "json", state |-> state_tag, iteration |-> iteration,
          context |-> [ctx EXCEPT !.task_id = JsonDefault(@)]]
Dumps(state_tag, iteration, ctx) ==
    [kind |-> "json", state |-> state_tag, iteration |-> iteration,
     context |-> [ctx EXCEPT !.task_id = JsonDefault(@)]]

\* StateSaver.load, lines 30-38: None without a file and for a file that is
\* not valid JSON, the parsed payload otherwise
Loads(file) ==
    IF file.kind = "json"
    THEN [kind |-> "dict", state |-> file.state, iteration |-> file.iteration,
          context |-> file.context]
    ELSE LoadedNone

\* StateSaver.save returns: the file is overwritten
SaveReturns(state_tag, iteration, ctx) ==
    /\ checkpoint_file' = Dumps(state_tag, iteration, ctx)
    /\ saved' = [kind |-> "payload", state |-> state_tag,
                 iteration |-> iteration, context |-> ctx]
    /\ checkpoint_log' = checkpoint_log \cup {iteration}
    /\ save_raised' = FALSE

\* StateSaver.save raises: in mkdir or json.dumps, before the file is opened,
\* or in write_text, which has truncated the file by then
SaveRaises ==
    /\ checkpoint_file' \in {checkpoint_file, PartialFile}
    /\ save_raised' = TRUE
    /\ UNCHANGED <<saved, checkpoint_log>>

\* arguments of save calls
SaverStates == {PLANNING, TESTING}
SaverIterations == {5, 10}
SaverContexts ==
    {[task_id |-> t, rest |-> r] :
        t \in {UuidValue("task"), StrValue("task")},
        r \in {InitialContext(50, 20), InitialContext(600, 20)}}

\* what the StateSaver leaves alone
outside_saver ==
    <<config, orch, breaker, registry, pipeline, sandbox, hygiene, db_task,
      patterns, failures, failed_write, others>>

\* a caller saves a checkpoint
Save ==
    /\ \E s \in SaverStates, i \in SaverIterations, c \in SaverContexts :
        SaveReturns(s, i, c)
    /\ UNCHANGED loaded
    /\ UNCHANGED outside_saver

\* a save call fails
SaveFails ==
    /\ SaveRaises
    /\ UNCHANGED loaded
    /\ UNCHANGED outside_saver

\* a caller loads the checkpoint
Load ==
    /\ loaded' = Loads(checkpoint_file)
    /\ UNCHANGED <<checkpoint_file, saved, checkpoint_log, save_raised>>
    /\ UNCHANGED outside_saver

NextSaver ==
    \/ Save
    \/ SaveFails
    \/ Load

\* a StateSaver on a workspace without a checkpoint; no orchestrator runs
InitSaver ==
    /\ InitBreaker
    /\ warning_threshold = DefaultWarningThreshold
    /\ hard_stop = DefaultHardStop

SpecSaver == InitSaver /\ [][NextSaver]_vars

\* ------------------------------------------ the run and its persistence
\* run(), line 334: the passes that end with _save_checkpoint
CheckpointInterval == 5
CheckpointDue(i) == i % CheckpointInterval = 0

\* _save_checkpoint, lines 586-587: the workspace of the Context is set
HasWorkspace(ctx) == "workspace" \in Keys(ctx) /\ "workspace" \notin ctx.null

\* _save_checkpoint, lines 588-596: where run() goes on after save raised
AfterSaveRaisedMutPropagates == "raised"
AfterSaveRaised == "loop"

\* _manage_context_hygiene as one step, after context['iteration'] is set
Hygiene(ctx) ==
    LET current == SetKey(ctx, "iteration", 1)
    IN  ApplyRecencyBias(IF NeedsCompaction(Status(current, max_tokens))
                         THEN Compact(current)
                         ELSE current)

\* what a phase function has written to the Context when it returns; the
\* coder hands back a workspace or none
PhaseWrites(ctx, phase, workspace) ==
    CASE phase = PLANNING ->
            SetKey(SetKey(SetKey(SetKey(ctx, "iteration", 1), "plan", 100),
                          "subtasks", 1),
                   "dependencies", 1)
      [] phase = CODING ->
            LET coded == SetCodeFiles(ctx, [files |-> 1, lines |-> 40,
                                            line_tokens |-> 10,
                                            marked |-> FALSE])
            IN  IF workspace THEN SetKey(coded, "workspace", 5)
                ELSE SetNone(coded, "workspace")
      [] phase = TESTING ->
            SetTestResults(ctx, [essential |-> 20, other |-> 0,
                                 error_chars |-> 0])
      [] phase = REFLECTING ->
            SetKey(SetKey(SetKey(ctx, "current_agent", 1), "iteration", 1),
                   "previous_errors", 0)
      [] OTHER -> ctx

\* _execute_reflection_phase, lines 496-506: the row of a stored failure
FailureRow(iteration) == [iteration |-> iteration, fixed |-> FALSE]

\* update_task_status: the task row after the call
TaskRow(status, iterations, with_code) ==
    [status |-> status, total_iterations |-> iterations,
     final_code |-> with_code]

\* _finalize, lines 604-617: the patterns stored by a run that ends in `s`
PatternsStoredMutAlways(s) == 1
PatternsStored(s) == IF s = SUCCESS THEN 1 ELSE 0

\* _finalize, lines 606-617: the code files and the dependency list of the
\* pattern: context.get('code_files', {}) and context.get('dependencies', []),
\* the empty list taking one token
PatternOf(ctx) ==
    [kind |-> "pattern",
     dependencies |-> IF "dependencies" \in Keys(ctx)
                      THEN ctx.tokens["dependencies"] ELSE 1,
     code_files |-> IF "code_files" \in Keys(ctx)
                    THEN ctx.code_files ELSE NoCodeFiles]

\* _finalize: the status written to the task row
FinalStatus(s) ==
    IF s = SUCCESS THEN "success" ELSE IF s = PAUSED THEN "paused" ELSE "failed"

\* Orchestrator.__init__ for a task, the audit disabled, the breaker with its
\* default warning threshold and a low or the default hard stop
InitPersist ==
    /\ Init
    /\ ~enable_security_audit
    /\ warning_threshold = DefaultWarningThreshold
    /\ hard_stop \in {MaxThreshold, DefaultHardStop}

\* what run() and its persistence leave alone
outside_persist ==
    <<config, registry, pipeline, sandbox, max_tokens, hygiene_pc,
      snapshot_status, context_before, context_unordered, loaded,
      last_dispatched, last_raised, last_passed, dispatched, others>>

\* a persistence write raises and nothing catches it: run() is left by the
\* exception
WriteRaises(position, write) ==
    /\ pc = position
    /\ pc' = "raised"
    /\ failed_write' = write
    /\ UNCHANGED <<current_iteration, result, stop_seen, exit_reason,
                   completed, context, breaker, db_task, patterns, failures,
                   checkpoint_file, checkpoint_log, save_raised, saved>>
    /\ UNCHANGED outside_persist

\* run(), lines 211-215: the state is PLANNING, the task row says 'running'
StartRun ==
    /\ pc = "init"
    /\ state' = PLANNING
    /\ db_task' = [db_task EXCEPT !.status = "running"]
    /\ pc' = "loop"
    /\ UNCHANGED <<current_iteration, result, stop_seen, exit_reason,
                   completed, context, breaker, patterns, failures,
                   checkpoint_file, checkpoint_log, save_raised, failed_write,
                   saved>>
    /\ UNCHANGED outside_persist

\* run(), line 215: update_task_status raises
StartRunWriteRaises ==
    /\ state' = PLANNING
    /\ WriteRaises("init", "update_task_status")

\* run(), lines 217-245: a pass begins: counter, Context hygiene, the
\* start-of-iteration hooks of an empty registry
PassBegins ==
    /\ pc = "loop"
    /\ LoopCondition
    /\ current_iteration' = IncrementIteration(current_iteration)
    /\ context' = Hygiene(context)
    /\ pc' = "breaker"
    /\ UNCHANGED <<state, result, stop_seen, exit_reason, completed, breaker,
                   persistence, others>>
    /\ UNCHANGED <<config, registry, pipeline, sandbox, max_tokens, hygiene_pc,
                   snapshot_status, context_before, context_unordered,
                   last_dispatched, last_raised, last_passed, dispatched>>

\* run(), line 217: the while condition fails
LoopEnds ==
    /\ pc = "loop"
    /\ ~LoopCondition
    /\ exit_reason' = "exhausted"
    /\ pc' = "finalize"
    /\ UNCHANGED <<state, current_iteration, result, stop_seen, completed,
                   context, breaker, persistence, others>>
    /\ UNCHANGED <<config, registry, pipeline, sandbox, max_tokens, hygiene_pc,
                   snapshot_status, context_before, context_unordered,
                   last_dispatched, last_raised, last_passed, dispatched>>

\* run(), lines 247-254: the circuit-breaker check
BreakerChecked ==
    /\ pc = "breaker"
    /\ BreakerCall(current_iteration)
    /\ IF cb_ret'
       THEN /\ state' = PAUSED
            /\ stop_seen' = TRUE
            /\ exit_reason' = "breaker"
            /\ pc' = "finalize"
       ELSE /\ pc' = "create"
            /\ UNCHANGED <<state, stop_seen, exit_reason>>
    /\ UNCHANGED <<current_iteration, result, completed, context, persistence, others>>
    /\ UNCHANGED <<config, registry, pipeline, sandbox, max_tokens, hygiene_pc,
                   snapshot_status, context_before, context_unordered,
                   last_dispatched, last_raised, last_passed, dispatched>>

\* run(), lines 257-261: the iteration row is created
IterationCreated ==
    /\ pc = "create"
    /\ pc' = "phase"
    /\ UNCHANGED <<state, current_iteration, result, stop_seen, exit_reason,
                   completed, context, breaker, persistence, others>>
    /\ UNCHANGED <<config, registry, pipeline, sandbox, max_tokens, hygiene_pc,
                   snapshot_status, context_before, context_unordered,
                   last_dispatched, last_raised, last_passed, dispatched>>

\* run(), lines 257-261: create_iteration raises
CreateIterationRaises ==
    /\ UNCHANGED state
    /\ WriteRaises("create", "create_iteration")

\* run(), lines 264-301: the phase function returns; the reflection phase has
\* stored a failure row when the reflector named an error type and signature;
\* a tester that reports passed=True ends the loop
PhaseCompletes(passed, workspace, names_error) ==
    /\ pc = "phase"
    /\ state \in Phases
    /\ context' = PhaseWrites(context, state, workspace)
    /\ failures' = IF state = REFLECTING /\ names_error
                   THEN failures \cup {FailureRow(current_iteration)}
                   ELSE failures
    /\ completed' = [completed EXCEPT ![state] = @ + 1]
    /\ state' = StateAfterPass(state, FALSE, passed)
    /\ IF state' = SUCCESS
       THEN /\ exit_reason' = "success"
            /\ pc' = "finalize"
       ELSE /\ pc' = "metric"
            /\ UNCHANGED exit_reason
    /\ UNCHANGED <<current_iteration, result, stop_seen, breaker, db_task,
                   patterns, checkpoint_file, checkpoint_log, save_raised,
                   failed_write, saved>>
    /\ UNCHANGED outside_persist

\* a phase other than the testing phase returns
PhaseDone ==
    /\ state # TESTING
    /\ \E workspace \in BOOLEAN, names_error \in BOOLEAN :
        /\ (state # CODING) => workspace
        /\ (state # REFLECTING) => names_error
        /\ PhaseCompletes(FALSE, workspace, names_error)

\* the testing phase returns with failed tests
TestsFail ==
    /\ state = TESTING
    /\ PhaseCompletes(FALSE, TRUE, TRUE)

\* the testing phase returns with passed tests
TestsPass ==
    /\ state = TESTING
    /\ PhaseCompletes(TRUE, TRUE, TRUE)

\* run(), lines 303-311: the agent of the phase raises before the phase wrote
\* anything; the pass ends at `continue`
PhaseAgentRaises ==
    /\ pc = "phase"
    /\ state \in Phases
    /\ pc' = "loop"
    /\ UNCHANGED <<state, current_iteration, result, stop_seen, exit_reason,
                   completed, context, breaker, persistence, others>>
    /\ UNCHANGED <<config, registry, pipeline, sandbox, max_tokens, hygiene_pc,
                   snapshot_status, context_before, context_unordered,
                   last_dispatched, last_raised, last_passed, dispatched>>

\* run(), lines 303-311: update_iteration raises at the end of the phase, the
\* Context written; the except branch catches it and the pass ends at
\* `continue`
PhaseWriteRaises ==
    /\ pc = "phase"
    /\ state \in Phases
    /\ \E workspace \in BOOLEAN :
        /\ (state # CODING) => workspace
        /\ context' = PhaseWrites(context, state, workspace)
    /\ failed_write' = "update_iteration"
    /\ pc' = "loop"
    /\ UNCHANGED <<state, current_iteration, result, stop_seen, exit_reason,
                   completed, breaker, db_task, patterns, failures,
                   checkpoint_file, checkpoint_log, save_raised, saved>>
    /\ UNCHANGED outside_persist

\* run(), lines 313-335: the metric is stored; a pass that is due goes on to
\* _save_checkpoint
MetricStored ==
    /\ pc = "metric"
    /\ pc' = IF CheckpointDue(current_iteration) THEN "checkpoint" ELSE "loop"
    /\ UNCHANGED <<state, current_iteration, result, stop_seen, exit_reason,
                   completed, context, breaker, persistence, others>>
    /\ UNCHANGED <<config, registry, pipeline, sandbox, max_tokens, hygiene_pc,
                   snapshot_status, context_before, context_unordered,
                   last_dispatched, last_raised, last_passed, dispatched>>

\* run(), lines 323-327: store_metric raises
StoreMetricRaises ==
    /\ UNCHANGED state
    /\ WriteRaises("metric", "store_metric")

\* _save_checkpoint, lines 578-594: the task row is updated and, the Context
\* having a workspace, the checkpoint file is written
CheckpointSaved ==
    /\ pc = "checkpoint"
    /\ HasWorkspace(context)
    /\ db_task' = TaskRow("running", current_iteration, db_task.final_code)
    /\ SaveReturns(state, current_iteration, SaverView(context))
    /\ pc' = "loop"
    /\ UNCHANGED <<state, current_iteration, result, stop_seen, exit_reason,
                   completed, context, breaker, patterns, failures,
                   failed_write>>
    /\ UNCHANGED outside_persist

\* _save_checkpoint, lines 588-596: save raises; the exception is logged
CheckpointSaveRaises ==
    /\ pc = "checkpoint"
    /\ HasWorkspace(context)
    /\ db_task' = TaskRow("running", current_iteration, db_task.final_code)
    /\ SaveRaises
    /\ pc' = AfterSaveRaised
    /\ UNCHANGED <<state, current_iteration, result, stop_seen, exit_reason,
                   completed, context, breaker, patterns, failures,
                   failed_write>>
    /\ UNCHANGED outside_persist

\* _save_checkpoint, lines 586-587: the Context has no workspace: no file
CheckpointWithoutWorkspace ==
    /\ pc = "checkpoint"
    /\ ~HasWorkspace(context)
    /\ db_task' = TaskRow("running", current_iteration, db_task.final_code)
    /\ pc' = "loop"
    /\ UNCHANGED <<state, current_iteration, result, stop_seen, exit_reason,
                   completed, context, breaker, patterns, failures,
                   checkpoint_file, checkpoint_log, save_raised, failed_write,
                   saved>>
    /\ UNCHANGED outside_persist

\* _save_checkpoint, lines 580-584: update_task_status raises
CheckpointStatusRaises ==
    /\ UNCHANGED state
    /\ WriteRaises("checkpoint", "update_task_status")

\* _finalize: the pattern of a successful run is stored, the task row gets
\* its final status, the result is returned
Finalized ==
    /\ pc = "finalize"
    /\ patterns' = patterns + PatternsStored(state)
    /\ db_task' = TaskRow(FinalStatus(state), current_iteration,
                          state = SUCCESS)
    /\ result' = Finalize
    /\ pc' = "done"
    /\ UNCHANGED <<state, current_iteration, stop_seen, exit_reason, completed,
                   context, breaker, failures, checkpoint_file, checkpoint_log,
                   save_raised, failed_write, saved>>
    /\ UNCHANGED outside_persist

\* _finalize, lines 611-617: store_pattern raises
StorePatternRaises ==
    /\ state = SUCCESS
    /\ UNCHANGED state
    /\ WriteRaises("finalize", "store_pattern")

\* _finalize, lines 620-626, 641-645, 658-662: update_task_status raises,
\* after the pattern of a successful run was stored
FinalStatusRaises ==
    /\ pc = "finalize"
    /\ patterns' = patterns + PatternsStored(state)
    /\ pc' = "raised"
    /\ failed_write' = "update_task_status"
    /\ UNCHANGED <<state, current_iteration, result, stop_seen, exit_reason,
                   completed, context, breaker, db_task, failures,
                   checkpoint_file, checkpoint_log, save_raised, saved>>
    /\ UNCHANGED outside_persist

NextPersist ==
    \/ StartRun
    \/ StartRunWriteRaises
    \/ PassBegins
    \/ LoopEnds
    \/ BreakerChecked
    \/ IterationCreated
    \/ CreateIterationRaises
    \/ PhaseDone
    \/ TestsFail
    \/ TestsPass
    \/ PhaseAgentRaises
    \/ PhaseWriteRaises
    \/ MetricStored
    \/ StoreMetricRaises
    \/ CheckpointSaved
    \/ CheckpointSaveRaises
    \/ CheckpointWithoutWorkspace
    \/ CheckpointStatusRaises
    \/ Finalized
    \/ StorePatternRaises
    \/ FinalStatusRaises

SpecPersist == InitPersist /\ [][NextPersist]_vars

\* ------------------------------------------------ the token-budget guard
\* the ceilings a TokenBudgetHook is constructed with, the amounts handed to
\* record_usage and the estimated_tokens of the calls (0: the metadata has
\* none)
BudgetCeilings == {DefaultTokenBudget, 40000}
UsageAmounts == {0, 20000, 25000}
EstimatedTokens == {0, 1, 5000, 25000, 25001}

\* the largest tokens_used of the model
MaxTokensUsed == 50100

\* TokenBudgetHook.execute, line 271
OverBudgetMutAtCeiling(used, estimated, ceiling) ==
    used + estimated >= ceiling
OverBudget(used, estimated, ceiling) ==
    used + estimated > ceiling

\* TokenBudgetHook.execute, lines 271-284: the result of the response
BudgetResult(used, estimated, ceiling) ==
    IF OverBudget(used, estimated, ceiling) THEN WARN ELSE ALLOW

\* what the token-budget guard leaves alone
outside_budget ==
    <<config, orch, breaker, registry, pipeline, sandbox, hygiene,
      persistence, pass_log, extract_call, pattern_log, budget_ceiling,
      max_same_error, error_history, guard_call>>

\* TokenBudgetHook.record_usage
RecordUsage ==
    /\ \E tokens \in UsageAmounts :
        /\ tokens_used + tokens <= MaxTokensUsed
        /\ tokens_used' = tokens_used + tokens
    /\ UNCHANGED budget_call
    /\ UNCHANGED outside_budget

\* TokenBudgetHook.execute
BudgetExecute ==
    /\ \E estimated \in EstimatedTokens :
        budget_call' = [estimated |-> estimated, used |-> tokens_used,
                        result |-> BudgetResult(tokens_used, estimated,
                                                budget_ceiling)]
    /\ UNCHANGED tokens_used
    /\ UNCHANGED outside_budget

NextBudget ==
    \/ RecordUsage
    \/ BudgetExecute

\* TokenBudgetHook.__init__ with the default or a small ceiling; no
\* orchestrator runs
InitBudget ==
    /\ max_iterations = 0
    /\ enable_code_review = FALSE
    /\ enable_security_audit = FALSE
    /\ warning_threshold = DefaultWarningThreshold
    /\ hard_stop = DefaultHardStop
    /\ user_confirmed = FALSE
    /\ state = INIT
    /\ current_iteration = 0
    /\ pc = "init"
    /\ result = <<>>
    /\ cb_arg = -1
    /\ cb_ret = FALSE
    /\ cb_op = "none"
    /\ warnings_logged = 0
    /\ was_reset = FALSE
    /\ stop_seen = FALSE
    /\ exit_reason = "none"
    /\ dispatched = [p \in Phases |-> 0]
    /\ completed = [p \in Phases |-> 0]
    /\ last_dispatched = "none"
    /\ last_raised = FALSE
    /\ last_passed = FALSE
    /\ hooks = <<>>
    /\ hook_enabled = [h \in HookIds |-> TRUE]
    /\ registration_order = <<>>
    /\ sb_pc = "idle"
    /\ sb_command = "none"
    /\ sb_docker = FALSE
    /\ sb_hook_result = "none"
    /\ sb_spawned = <<>>
    /\ sb_post_runs = 0
    /\ sb_returncode = -1
    /\ sb_exception = "none"
    /\ test_result = NoTestResult
    /\ tester_pc = "idle"
    /\ context = InitialContext(50, 20)
    /\ max_tokens = DefaultMaxTokens
    /\ hygiene_pc = "init"
    /\ snapshot_status = "none"
    /\ context_before = InitialContext(50, 20)
    /\ context_unordered = InitialContext(50, 20)
    /\ db_task = CreatedTask
    /\ patterns = 0
    /\ failures = {}
    /\ checkpoint_file = NoFile
    /\ checkpoint_log = {}
    /\ save_raised = FALSE
    /\ failed_write = "none"
    /\ saved = NoPayload
    /\ loaded = NotLoaded
    /\ stored_pattern = NoPattern
    /\ planner_dependencies = 0
    /\ coder_files = NoCodeFiles
    /\ tokens_used = 0
    /\ budget_ceiling \in BudgetCeilings
    /\ budget_call = NoBudgetCall
    /\ max_same_error = DefaultMaxSameError
    /\ error_history = <<>>
    /\ guard_call = NoGuardCall
    /\ pass_trace = <<>>
    /\ iteration_records = <<>>
    /\ run_hook_result = "none"
    /\ previous_error = EmptyError
    /\ failure_cycles = {}
    /\ extract_call = NoExtractCall
    /\ hp_pc = "idle"
    /\ hp_phase = "none"
    /\ hp_input = NoContext
    /\ hp_index = 0
    /\ hp_context = NoContext
    /\ hp_warnings = <<>>
    /\ hp_result = "none"
    /\ hp_trace = <<>>

SpecBudget == InitBudget /\ [][NextBudget]_vars

\* ---------------------------------------------- the repeated-error guard
\* the limits an IterationGuardHook is constructed with
GuardLimits == {DefaultMaxSameError, 1}

\* the previous_error texts of the calls: none, white space only, an error
\* with a line number and a path, the same error at another line of another
\* file, and the same with white space around it and a long tail
GuardErrors ==
    {EmptyError,
     ErrorText("", "", "", TRUE, ""),
     ErrorText("E1", "10", "a.py", FALSE, ""),
     ErrorText("E1", "20", "b.py", FALSE, ""),
     ErrorText("E1", "10", "a.py", TRUE, "tail")}

\* the longest error_history of the model
MaxHistory == 7

\* IterationGuardHook._normalize_error: "line N" becomes "line X", 'File
\* "..."' becomes 'File "X"', surrounding white space is stripped, the first
\* 200 characters are kept
NormalizeErrorMutKeepsLines(e) ==
    ErrorText(e.message, e.line, IF e.path = "" THEN "" ELSE "X", FALSE, "")
NormalizeError(e) ==
    ErrorText(e.message, IF e.line = "" THEN "" ELSE "X",
              IF e.path = "" THEN "" ELSE "X", FALSE, "")

\* IterationGuardHook.execute, line 317: error_history[-5:]
WindowMutWholeHistory(history) == history
Window(history) ==
    SubSeq(history,
           IF Len(history) > HistoryWindow
           THEN Len(history) - HistoryWindow + 1 ELSE 1,
           Len(history))

\* IterationGuardHook.execute, lines 316-319: same_error_count
SameErrorCount(history, e) ==
    Cardinality({i \in 1..Len(Window(history)) :
                   NormalizeError(Window(history)[i]) = NormalizeError(e)})

\* IterationGuardHook.execute, lines 309-335: the result of the response
GuardResult(history, e, limit) ==
    IF e = EmptyError THEN ALLOW
    ELSE IF SameErrorCount(history, e) >= limit THEN WARN ELSE ALLOW

\* IterationGuardHook.execute, lines 309-321: error_history after the call
HistoryAfter(history, e) ==
    IF e = EmptyError THEN history ELSE Append(history, e)

\* what the repeated-error guard leaves alone
outside_guard ==
    <<config, orch, breaker, registry, pipeline, sandbox, hygiene,
      persistence, pass_log, extract_call, pattern_log, tokens_used,
      budget_ceiling, budget_call, max_same_error>>

\* IterationGuardHook.execute
GuardExecute ==
    /\ \E e \in GuardErrors :
        /\ Len(HistoryAfter(error_history, e)) <= MaxHistory
        /\ guard_call' = [error |-> e, history |-> error_history,
                          result |-> GuardResult(error_history, e,
                                                 max_same_error)]
        /\ error_history' = HistoryAfter(error_history, e)
    /\ UNCHANGED outside_guard

NextGuard ==
    \/ GuardExecute

\* IterationGuardHook.__init__ with the default limit or a limit of one; no
\* orchestrator runs
InitGuard ==
    /\ max_iterations = 0
    /\ enable_code_review = FALSE
    /\ enable_security_audit = FALSE
    /\ warning_threshold = DefaultWarningThreshold
    /\ hard_stop = DefaultHardStop
    /\ user_confirmed = FALSE
    /\ state = INIT
    /\ current_iteration = 0
    /\ pc = "init"
    /\ result = <<>>
    /\ cb_arg = -1
    /\ cb_ret = FALSE
    /\ cb_op = "none"
    /\ warnings_logged = 0
    /\ was_reset = FALSE
    /\ stop_seen = FALSE
    /\ exit_reason = "none"
    /\ dispatched = [p \in Phases |-> 0]
    /\ completed = [p \in Phases |-> 0]
    /\ last_dispatched = "none"
    /\ last_raised = FALSE
    /\ last_passed = FALSE
    /\ hooks = <<>>
    /\ hook_enabled = [h \in HookIds |-> TRUE]
    /\ registration_order = <<>>
    /\ sb_pc = "idle"
    /\ sb_command = "none"
    /\ sb_docker = FALSE
    /\ sb_hook_result = "none"
    /\ sb_spawned = <<>>
    /\ sb_post_runs = 0
    /\ sb_returncode = -1
    /\ sb_exception = "none"
    /\ test_result = NoTestResult
    /\ tester_pc = "idle"
    /\ context = InitialContext(50, 20)
    /\ max_tokens = DefaultMaxTokens
    /\ hygiene_pc = "init"
    /\ snapshot_status = "none"
    /\ context_before = InitialContext(50, 20)
    /\ context_unordered = InitialContext(50, 20)
    /\ db_task = CreatedTask
    /\ patterns = 0
    /\ failures = {}
    /\ checkpoint_file = NoFile
    /\ checkpoint_log = {}
    /\ save_raised = FALSE
    /\ failed_write = "none"
    /\ saved = NoPayload
    /\ loaded = NotLoaded
    /\ stored_pattern = NoPattern
    /\ planner_dependencies = 0
    /\ coder_files = NoCodeFiles
    /\ tokens_used = 0
    /\ budget_ceiling = DefaultTokenBudget
    /\ budget_call = NoBudgetCall
    /\ max_same_error \in GuardLimits
    /\ error_history = <<>>
    /\ guard_call = NoGuardCall
    /\ pass_trace = <<>>
    /\ iteration_records = <<>>
    /\ run_hook_result = "none"
    /\ previous_error = EmptyError
    /\ failure_cycles = {}
    /\ extract_call = NoExtractCall
    /\ hp_pc = "idle"
    /\ hp_phase = "none"
    /\ hp_input = NoContext
    /\ hp_index = 0
    /\ hp_context = NoContext
    /\ hp_warnings = <<>>
    /\ hp_result = "none"
    /\ hp_trace = <<>>

SpecGuard == InitGuard /\ [][NextGuard]_vars

\* ------------------------------------------------ the steps of a pass
\* the most passes of a run of this specification
MaxPasses == 8

\* run(), lines 218-266: the steps of a pass in the order of the code
StepOrder ==
    <<"increment", "hygiene", "pre_hooks", "breaker", "create_iteration",
      "dispatch">>

\* the root causes a reflector returns: none, an error, the same error at
\* another line of another file
RootCauses ==
    {EmptyError,
     ErrorText("E1", "10", "a.py", FALSE, ""),
     ErrorText("E1", "20", "b.py", FALSE, "")}

\* what the hooks behind the guard make of the start-of-iteration call: the
\* result of the pipeline and whether a hook modified the content
PipelineResults == {ALLOW, BLOCK, REQUIRE_APPROVAL}

\* the HookContext content a MODIFY response put in place of the Context
ModifiedContent(ctx) == SetKey(ctx, "current_agent", 99)

\* run(), line 242: the second element of the returned tuple goes to `_`
ContextAfterHooksMutReplaced(ctx, returned) == returned
ContextAfterHooks(ctx, returned) == ctx

\* run(), lines 247-254: where the pass goes after the hooks returned
AfterHooksMutHalts(tag) == IF tag = ALLOW THEN "breaker" ELSE "finalize"
AfterHooks(tag) == "breaker"

\* run(), lines 247-261: where the pass goes after should_stop returned
AfterBreakerMutCreatesFirst(stop) == "create"
AfterBreaker(stop) == IF stop THEN "finalize" ELSE "create"

\* create_iteration(task_id, current_iteration, state.value): the row
IterationRecordMutNextPhase(i, s) ==
    [iteration |-> i, phase |-> NextState(s, FALSE)]
IterationRecord(i, s) == [iteration |-> i, phase |-> s]

\* what the steps of a pass leave alone
outside_pass ==
    <<config, registry, pipeline, sandbox, max_tokens, hygiene_pc,
      snapshot_status, context_before, context_unordered, persistence,
      tokens_used, budget_ceiling, budget_call, max_same_error, extract_call,
      pattern_log>>

\* run(), lines 211-215
PassRunStart ==
    /\ pc = "init"
    /\ state' = PLANNING
    /\ pc' = "loop"
    /\ UNCHANGED <<current_iteration, result, stop_seen, exit_reason,
                   dispatched, completed, last_dispatched, last_raised,
                   last_passed, breaker, context, error_history, guard_call,
                   pass_log>>
    /\ UNCHANGED outside_pass

\* run(), lines 217-228: the while condition holds, the counter is
\* incremented and written to the Context
PassIncrement ==
    /\ pc = "loop"
    /\ LoopCondition
    /\ current_iteration' = IncrementIteration(current_iteration)
    /\ context' = SetKey(context, "iteration", 1)
    /\ pass_trace' = <<"increment">>
    /\ pc' = "hygiene"
    /\ UNCHANGED <<state, result, stop_seen, exit_reason, dispatched,
                   completed, last_dispatched, last_raised, last_passed,
                   breaker, error_history, guard_call, iteration_records,
                   run_hook_result, previous_error, failure_cycles>>
    /\ UNCHANGED outside_pass

\* run(), line 217: the while condition fails
PassLoopEnds ==
    /\ pc = "loop"
    /\ ~LoopCondition
    /\ exit_reason' = "exhausted"
    /\ pc' = "finalize"
    /\ UNCHANGED <<state, current_iteration, result, stop_seen, dispatched,
                   completed, last_dispatched, last_raised, last_passed,
                   breaker, context, error_history, guard_call, pass_log>>
    /\ UNCHANGED outside_pass

\* run(), line 231: _manage_context_hygiene
PassHygiene ==
    /\ pc = "hygiene"
    /\ context' = Hygiene(context)
    /\ pass_trace' = Append(pass_trace, "hygiene")
    /\ pc' = "hooks"
    /\ UNCHANGED <<state, current_iteration, result, stop_seen, exit_reason,
                   dispatched, completed, last_dispatched, last_raised,
                   last_passed, breaker, error_history, guard_call,
                   iteration_records, run_hook_result, previous_error,
                   failure_cycles>>
    /\ UNCHANGED outside_pass

\* run(), lines 233-245: execute_pre_hooks for 'start_iteration' with
\* context['previous_errors'] as previous_error: the guard executes, the
\* hooks behind it let the call pass, block it or ask for approval, and may
\* have modified the content of the context they return
PassPreHooks ==
    /\ pc = "hooks"
    /\ guard_call' = [error |-> previous_error, history |-> error_history,
                      result |-> GuardResult(error_history, previous_error,
                                             max_same_error)]
    /\ error_history' = HistoryAfter(error_history, previous_error)
    /\ \E tag \in PipelineResults, modified \in BOOLEAN :
        /\ run_hook_result' = tag
        /\ context' = ContextAfterHooks(context,
                                        IF modified
                                        THEN ModifiedContent(context)
                                        ELSE context)
        /\ pc' = AfterHooks(tag)
    /\ pass_trace' = Append(pass_trace, "pre_hooks")
    /\ UNCHANGED <<state, current_iteration, result, stop_seen, exit_reason,
                   dispatched, completed, last_dispatched, last_raised,
                   last_passed, breaker, iteration_records, previous_error,
                   failure_cycles>>
    /\ UNCHANGED outside_pass

\* run(), lines 247-254: the circuit-breaker check
PassBreaker ==
    /\ pc = "breaker"
    /\ BreakerCall(current_iteration)
    /\ pc' = AfterBreaker(cb_ret')
    /\ IF cb_ret'
       THEN /\ state' = PAUSED
            /\ stop_seen' = TRUE
            /\ exit_reason' = "breaker"
       ELSE UNCHANGED <<state, stop_seen, exit_reason>>
    /\ pass_trace' = Append(pass_trace, "breaker")
    /\ UNCHANGED <<current_iteration, result, dispatched, completed,
                   last_dispatched, last_raised, last_passed, context,
                   error_history, guard_call, iteration_records,
                   run_hook_result, previous_error, failure_cycles>>
    /\ UNCHANGED outside_pass

\* run(), lines 257-261: create_iteration returns
PassCreateIteration ==
    /\ pc = "create"
    /\ iteration_records' =
         Append(iteration_records, IterationRecord(current_iteration, state))
    /\ pass_trace' = Append(pass_trace, "create_iteration")
    /\ pc' = "phase"
    /\ UNCHANGED <<state, current_iteration, result, stop_seen, exit_reason,
                   dispatched, completed, last_dispatched, last_raised,
                   last_passed, breaker, context, error_history, guard_call,
                   run_hook_result, previous_error, failure_cycles>>
    /\ UNCHANGED outside_pass

\* run(), lines 257-261: create_iteration raises; nothing catches it
PassCreateIterationRaises ==
    /\ pc = "create"
    /\ pc' = "raised"
    /\ UNCHANGED <<state, current_iteration, result, stop_seen, exit_reason,
                   dispatched, completed, last_dispatched, last_raised,
                   last_passed, breaker, context, error_history, guard_call,
                   pass_log>>
    /\ UNCHANGED outside_pass

\* run(), lines 264-311: the phase function of the state is called; it
\* returns, having written to the Context (the reflection phase its root
\* cause), or it raises
PassDispatch(raised, passed, cause) ==
    /\ pc = "phase"
    /\ state \in Phases
    /\ dispatched' = [dispatched EXCEPT ![state] = @ + 1]
    /\ completed' = IF raised THEN completed
                    ELSE [completed EXCEPT ![state] = @ + 1]
    /\ last_dispatched' = state
    /\ last_raised' = raised
    /\ last_passed' = IF state = TESTING /\ ~raised THEN passed ELSE last_passed
    /\ context' = IF raised THEN context ELSE PhaseWrites(context, state, TRUE)
    /\ IF state = REFLECTING /\ ~raised
       THEN /\ previous_error' = cause
            /\ failure_cycles' =
                 failure_cycles \cup {[iteration |-> current_iteration,
                                       error |-> NormalizeError(cause)]}
       ELSE UNCHANGED <<previous_error, failure_cycles>>
    /\ state' = StateAfterPass(state, raised, passed)
    /\ IF state' = SUCCESS
       THEN /\ exit_reason' = "success"
            /\ pc' = "finalize"
       ELSE /\ pc' = "loop"
            /\ UNCHANGED exit_reason
    /\ pass_trace' = Append(pass_trace, "dispatch")
    /\ UNCHANGED <<current_iteration, result, stop_seen, breaker,
                   error_history, guard_call, iteration_records,
                   run_hook_result>>
    /\ UNCHANGED outside_pass

\* a phase other than the reflection phase returns (a tester: not passed)
PassPhaseReturns ==
    /\ state # REFLECTING
    /\ PassDispatch(FALSE, FALSE, EmptyError)

\* the tester returns passed=True
PassTesterPasses ==
    /\ state = TESTING
    /\ PassDispatch(FALSE, TRUE, EmptyError)

\* the reflection phase returns
PassReflectionReturns ==
    /\ state = REFLECTING
    /\ \E cause \in RootCauses : PassDispatch(FALSE, FALSE, cause)

\* the phase function raises
PassPhaseRaises ==
    PassDispatch(TRUE, FALSE, EmptyError)

\* run(), line 338
PassReturn ==
    /\ pc = "finalize"
    /\ result' = Finalize
    /\ pc' = "done"
    /\ UNCHANGED <<state, current_iteration, stop_seen, exit_reason,
                   dispatched, completed, last_dispatched, last_raised,
                   last_passed, breaker, context, error_history, guard_call,
                   pass_log>>
    /\ UNCHANGED outside_pass

NextPass ==
    \/ PassRunStart
    \/ PassIncrement
    \/ PassLoopEnds
    \/ PassHygiene
    \/ PassPreHooks
    \/ PassBreaker
    \/ PassCreateIteration
    \/ PassCreateIterationRaises
    \/ PassPhaseReturns
    \/ PassTesterPasses
    \/ PassReflectionReturns
    \/ PassPhaseRaises
    \/ PassReturn

\* Orchestrator.__init__ with the default registry and one more hook behind
\* the guard; the breaker with its default warning threshold and a low or the
\* default hard stop
InitPass ==
    /\ max_iterations \in 0..MaxPasses
    /\ enable_code_review \in BOOLEAN
    /\ enable_security_audit \in BOOLEAN
    /\ warning_threshold = DefaultWarningThreshold
    /\ hard_stop \in {MaxThreshold, DefaultHardStop}
    /\ user_confirmed = FALSE
    /\ state = INIT
    /\ current_iteration = 0
    /\ pc = "init"
    /\ result = <<>>
    /\ cb_arg = -1
    /\ cb_ret = FALSE
    /\ cb_op = "none"
    /\ warnings_logged = 0
    /\ was_reset = FALSE
    /\ stop_seen = FALSE
    /\ exit_reason = "none"
    /\ dispatched = [p \in Phases |-> 0]
    /\ completed = [p \in Phases |-> 0]
    /\ last_dispatched = "none"
    /\ last_raised = FALSE
    /\ last_passed = FALSE
    /\ hooks = <<>>
    /\ hook_enabled = [h \in HookIds |-> TRUE]
    /\ registration_order = <<>>
    /\ sb_pc = "idle"
    /\ sb_command = "none"
    /\ sb_docker = FALSE
    /\ sb_hook_result = "none"
    /\ sb_spawned = <<>>
    /\ sb_post_runs = 0
    /\ sb_returncode = -1
    /\ sb_exception = "none"
    /\ test_result = NoTestResult
    /\ tester_pc = "idle"
    /\ context = InitialContext(50, 20)
    /\ max_tokens = DefaultMaxTokens
    /\ hygiene_pc = "init"
    /\ snapshot_status = "none"
    /\ context_before = InitialContext(50, 20)
    /\ context_unordered = InitialContext(50, 20)
    /\ db_task = CreatedTask
    /\ patterns = 0
    /\ failures = {}
    /\ checkpoint_file = NoFile
    /\ checkpoint_log = {}
    /\ save_raised = FALSE
    /\ failed_write = "none"
    /\ saved = NoPayload
    /\ loaded = NotLoaded
    /\ stored_pattern = NoPattern
    /\ planner_dependencies = 0
    /\ coder_files = NoCodeFiles
    /\ tokens_used = 0
    /\ budget_ceiling = DefaultTokenBudget
    /\ budget_call = NoBudgetCall
    /\ max_same_error = DefaultMaxSameError
    /\ error_history = <<>>
    /\ guard_call = NoGuardCall
    /\ pass_trace = <<>>
    /\ iteration_records = <<>>
    /\ run_hook_result = "none"
    /\ previous_error = EmptyError
    /\ failure_cycles = {}
    /\ extract_call = NoExtractCall
    /\ hp_pc = "idle"
    /\ hp_phase = "none"
    /\ hp_input = NoContext
    /\ hp_index = 0
    /\ hp_context = NoContext
    /\ hp_warnings = <<>>
    /\ hp_result = "none"
    /\ hp_trace = <<>>

SpecPass == InitPass /\ [][NextPass]_vars

\* ------------------------------------------------- the failure analyzer
\* Python values of other types than str and UUID: None, a dict by its
\* repr, and the absence of a key
NoneValue == [type |-> "NoneType", text |-> "None"]
DictValue(text) == [type |-> "dict", text |-> text]
MissingValue == [type |-> "missing", text |-> ""]

\* dict.get(key): None for a key that is absent
Get(v) == IF v = MissingValue THEN NoneValue ELSE v

\* bool(v)
Truthy(v) ==
    CASE v.type = "NoneType" -> FALSE
      [] v.type = "missing" -> FALSE
      [] v.type = "str" -> v.text # ""
      [] v.type = "dict" -> v.text # "{}"
      [] OTHER -> TRUE

\* a or b
Or(a, b) == IF Truthy(a) THEN a ELSE b

\* str(v)
Str(v) == StrValue(v.text)

\* the test_results dictionaries handed to extract
ExtractInputs ==
    [error_message : {MissingValue, NoneValue, StrValue(""),
                      StrValue("ImportError: No module named 'x'")},
     stderr : {MissingValue, StrValue(""),
               StrValue("AttributeError: no attribute 'x'")},
     test_results : {MissingValue, DictValue("{}"),
                     DictValue("{'passed': 5, 'failed': 0}")},
     stack_trace : {MissingValue, StrValue("Traceback")},
     passed : BOOLEAN]

\* FailureAnalyzer.extract, lines 183-188: the error text
ErrorMessageOfMutStderrFirst(tr) ==
    LET first == Or(Get(tr.stderr), Get(tr.error_message))
        raw == Get(tr.test_results)
    IN  IF Truthy(first) THEN first
        ELSE IF Truthy(raw) THEN Str(raw) ELSE StrValue("")
ErrorMessageOf(tr) ==
    LET first == Or(Get(tr.error_message), Get(tr.stderr))
        raw == Get(tr.test_results)
    IN  IF Truthy(first) THEN first
        ELSE IF Truthy(raw) THEN Str(raw) ELSE StrValue("")

\* FailureAnalyzer._extract_error_type for the texts of the inputs
ErrorTypeOf(text) ==
    CASE text = "ImportError: No module named 'x'" -> "ImportError"
      [] text = "AttributeError: no attribute 'x'" -> "AttributeError"
      [] OTHER -> "UnknownError"

\* FailureAnalyzer.extract: the returned FailureInfo, or None
Extract(tr) ==
    IF ~Truthy(ErrorMessageOf(tr)) THEN [kind |-> "None"]
    ELSE [kind |-> "FailureInfo",
          error_message |-> Str(ErrorMessageOf(tr)),
          error_type |-> ErrorTypeOf(ErrorMessageOf(tr).text),
          stack_trace |-> Str(Or(Or(Get(tr.stack_trace), Get(tr.stderr)),
                                 StrValue("")))]

\* a caller hands test results to extract
ExtractCall ==
    /\ \E tr \in ExtractInputs :
        extract_call' = [kind |-> "returned", test_results |-> tr,
                         output |-> Extract(tr)]
    /\ UNCHANGED <<config, orch, breaker, registry, pipeline, sandbox, hygiene,
                   persistence, guards, pass_log, pattern_log>>

NextAnalyzer ==
    \/ ExtractCall

\* a FailureAnalyzer; no orchestrator runs
InitAnalyzer ==
    /\ max_iterations = 0
    /\ enable_code_review = FALSE
    /\ enable_security_audit = FALSE
    /\ warning_threshold = DefaultWarningThreshold
    /\ hard_stop = DefaultHardStop
    /\ user_confirmed = FALSE
    /\ state = INIT
    /\ current_iteration = 0
    /\ pc = "init"
    /\ result = <<>>
    /\ cb_arg = -1
    /\ cb_ret = FALSE
    /\ cb_op = "none"
    /\ warnings_logged = 0
    /\ was_reset = FALSE
    /\ stop_seen = FALSE
    /\ exit_reason = "none"
    /\ dispatched = [p \in Phases |-> 0]
    /\ completed = [p \in Phases |-> 0]
    /\ last_dispatched = "none"
    /\ last_raised = FALSE
    /\ last_passed = FALSE
    /\ hooks = <<>>
    /\ hook_enabled = [h \in HookIds |-> TRUE]
    /\ registration_order = <<>>
    /\ sb_pc = "idle"
    /\ sb_command = "none"
    /\ sb_docker = FALSE
    /\ sb_hook_result = "none"
    /\ sb_spawned = <<>>
    /\ sb_post_runs = 0
    /\ sb_returncode = -1
    /\ sb_exception = "none"
    /\ test_result = NoTestResult
    /\ tester_pc = "idle"
    /\ context = InitialContext(50, 20)
    /\ max_tokens = DefaultMaxTokens
    /\ hygiene_pc = "init"
    /\ snapshot_status = "none"
    /\ context_before = InitialContext(50, 20)
    /\ context_unordered = InitialContext(50, 20)
    /\ db_task = CreatedTask
    /\ patterns = 0
    /\ failures = {}
    /\ checkpoint_file = NoFile
    /\ checkpoint_log = {}
    /\ save_raised = FALSE
    /\ failed_write = "none"
    /\ saved = NoPayload
    /\ loaded = NotLoaded
    /\ stored_pattern = NoPattern
    /\ planner_dependencies = 0
    /\ coder_files = NoCodeFiles
    /\ tokens_used = 0
    /\ budget_ceiling = DefaultTokenBudget
    /\ budget_call = NoBudgetCall
    /\ max_same_error = DefaultMaxSameError
    /\ error_history = <<>>
    /\ guard_call = NoGuardCall
    /\ pass_trace = <<>>
    /\ iteration_records = <<>>
    /\ run_hook_result = "none"
    /\ previous_error = EmptyError
    /\ failure_cycles = {}
    /\ extract_call = NoExtractCall
    /\ hp_pc = "idle"
    /\ hp_phase = "none"
    /\ hp_input = NoContext
    /\ hp_index = 0
    /\ hp_context = NoContext
    /\ hp_warnings = <<>>
    /\ hp_result = "none"
    /\ hp_trace = <<>>

SpecAnalyzer == InitAnalyzer /\ [][NextAnalyzer]_vars

\* ------------------------------------------- the Context through a run
\* Orchestrator.__init__ for a task, review and audit disabled
InitContext ==
    /\ max_iterations = MaxContextPasses
    /\ enable_code_review = FALSE
    /\ enable_security_audit = FALSE
    /\ \E d \in DescriptionTokens, g \in GoalTokens :
        context = InitialContext(d, g)
    /\ max_tokens \in MaxTokensChoices
    /\ hygiene_pc = "init"
    /\ snapshot_status = "none"
    /\ context_before = context
    /\ context_unordered = context
    /\ db_task = CreatedTask
    /\ patterns = 0
    /\ failures = {}
    /\ checkpoint_file = NoFile
    /\ checkpoint_log = {}
    /\ save_raised = FALSE
    /\ failed_write = "none"
    /\ saved = NoPayload
    /\ loaded = NotLoaded
    /\ stored_pattern = NoPattern
    /\ planner_dependencies = 0
    /\ coder_files = NoCodeFiles
    /\ tokens_used = 0
    /\ budget_ceiling = DefaultTokenBudget
    /\ budget_call = NoBudgetCall
    /\ max_same_error = DefaultMaxSameError
    /\ error_history = <<>>
    /\ guard_call = NoGuardCall
    /\ pass_trace = <<>>
    /\ iteration_records = <<>>
    /\ run_hook_result = "none"
    /\ previous_error = EmptyError
    /\ failure_cycles = {}
    /\ extract_call = NoExtractCall
    /\ warning_threshold = DefaultWarningThreshold
    /\ hard_stop = DefaultHardStop
    /\ user_confirmed = FALSE
    /\ cb_arg = -1
    /\ cb_ret = FALSE
    /\ cb_op = "none"
    /\ warnings_logged = 0
    /\ was_reset = FALSE
    /\ state = INIT
    /\ current_iteration = 0
    /\ pc = "init"
    /\ result = <<>>
    /\ stop_seen = FALSE
    /\ exit_reason = "none"
    /\ dispatched = [p \in Phases |-> 0]
    /\ completed = [p \in Phases |-> 0]
    /\ last_dispatched = "none"
    /\ last_raised = FALSE
    /\ last_passed = FALSE
    /\ hooks = <<>>
    /\ hook_enabled = [h \in HookIds |-> TRUE]
    /\ registration_order = <<>>
    /\ sb_pc = "idle"
    /\ sb_command = "none"
    /\ sb_docker = FALSE
    /\ sb_hook_result = "none"
    /\ sb_spawned = <<>>
    /\ sb_post_runs = 0
    /\ sb_returncode = -1
    /\ sb_exception = "none"
    /\ test_result = NoTestResult
    /\ tester_pc = "idle"
    /\ hp_pc = "idle"
    /\ hp_phase = "none"
    /\ hp_input = NoContext
    /\ hp_index = 0
    /\ hp_context = NoContext
    /\ hp_warnings = <<>>
    /\ hp_result = "none"
    /\ hp_trace = <<>>

\* what the passes of the Context leave alone; context_unordered is written by
\* ContextReordered only
outside_context ==
    <<config, breaker, registry, pipeline, sandbox, persistence, guards,
      pass_log, extract_call, max_tokens, pc, result, stop_seen, exit_reason, dispatched, completed, last_dispatched,
      last_raised, last_passed>>

\* run(), line 214
ContextRunStart ==
    /\ hygiene_pc = "init"
    /\ state' = PLANNING
    /\ hygiene_pc' = "loop"
    /\ UNCHANGED <<context, snapshot_status, context_before, context_unordered,
                   current_iteration>>
    /\ UNCHANGED outside_context
    /\ UNCHANGED pattern_log

\* run(), lines 217-222: the loop is entered, context['iteration'] is set
ContextBeginPass ==
    /\ hygiene_pc = "loop"
    /\ state # SUCCESS
    /\ LoopCondition
    /\ current_iteration' = IncrementIteration(current_iteration)
    /\ context' = SetKey(context, "iteration", 1)
    /\ hygiene_pc' = "hygiene"
    /\ UNCHANGED <<state, snapshot_status, context_before, context_unordered>>
    /\ UNCHANGED outside_context
    /\ UNCHANGED pattern_log

\* _manage_context_hygiene, lines 342-352: analyze finds nothing to compact
ContextAnalyzed ==
    /\ hygiene_pc = "hygiene"
    /\ ~NeedsCompaction(Status(context, max_tokens))
    /\ snapshot_status' = Status(context, max_tokens)
    /\ hygiene_pc' = "analyzed"
    /\ UNCHANGED <<state, context, context_before, context_unordered,
                   current_iteration>>
    /\ UNCHANGED outside_context
    /\ UNCHANGED pattern_log

\* _manage_context_hygiene, lines 342-358: CRITICAL or OVERFLOW: compact
ContextCompacted ==
    /\ hygiene_pc = "hygiene"
    /\ NeedsCompaction(Status(context, max_tokens))
    /\ snapshot_status' = Status(context, max_tokens)
    /\ context_before' = context
    /\ context' = Compact(context)
    /\ hygiene_pc' = "compacted"
    /\ UNCHANGED <<state, current_iteration, context_unordered>>
    /\ UNCHANGED outside_context
    /\ UNCHANGED pattern_log

\* _manage_context_hygiene, line 361
ContextReordered ==
    /\ hygiene_pc \in {"analyzed", "compacted"}
    /\ context_unordered' = context
    /\ context' = ApplyRecencyBias(context)
    /\ hygiene_pc' = "phase"
    /\ UNCHANGED <<state, snapshot_status, context_before, current_iteration>>
    /\ UNCHANGED outside_context
    /\ UNCHANGED pattern_log

\* _execute_planning_phase, lines 371-376
PlanningWrites ==
    /\ hygiene_pc = "phase"
    /\ state = PLANNING
    /\ \E plan \in PlanTokens, list \in ListTokens :
        /\ context' = SetKey(SetKey(SetKey(SetKey(context, "iteration", 1),
                                           "plan", plan),
                                    "subtasks", list),
                             "dependencies", list)
        /\ planner_dependencies' = list
    /\ state' = NextState(state, FALSE)
    /\ hygiene_pc' = "loop"
    /\ UNCHANGED <<snapshot_status, context_before, context_unordered,
                   current_iteration, stored_pattern, coder_files>>
    /\ UNCHANGED outside_context

\* _execute_coding_phase, lines 394-397
CodingWrites ==
    /\ hygiene_pc = "phase"
    /\ state = CODING
    /\ \E cf \in CodeFileChoices :
        /\ context' = SetKey(SetCodeFiles(context, cf), "workspace", 5)
        /\ coder_files' = cf
    /\ state' = NextState(state, FALSE)
    /\ hygiene_pc' = "loop"
    /\ UNCHANGED <<snapshot_status, context_before, context_unordered,
                   current_iteration, stored_pattern, planner_dependencies>>
    /\ UNCHANGED outside_context

\* _execute_testing_phase, lines 427-429
TestingWrites ==
    /\ hygiene_pc = "phase"
    /\ state = TESTING
    /\ \E tr \in TestResultChoices :
        context' = SetTestResults(context, tr)
    /\ \E passed \in BOOLEAN : state' = NextState(state, passed)
    /\ hygiene_pc' = "loop"
    /\ UNCHANGED <<snapshot_status, context_before, context_unordered,
                   current_iteration>>
    /\ UNCHANGED outside_context
    /\ UNCHANGED pattern_log

\* _execute_reflection_phase, lines 463-468
ReflectionWrites ==
    /\ hygiene_pc = "phase"
    /\ state = REFLECTING
    /\ \E cause \in RootCauseTokens :
        context' = SetKey(SetKey(SetKey(context, "current_agent", 1),
                                 "iteration", 1),
                          "previous_errors", cause)
    /\ state' = NextState(state, FALSE)
    /\ hygiene_pc' = "loop"
    /\ UNCHANGED <<snapshot_status, context_before, context_unordered,
                   current_iteration>>
    /\ UNCHANGED outside_context
    /\ UNCHANGED pattern_log

\* run(), lines 303-311: the agent raised before anything was written
PhaseRaisesUnwritten ==
    /\ hygiene_pc = "phase"
    /\ hygiene_pc' = "loop"
    /\ UNCHANGED <<state, context, snapshot_status, context_before,
                   context_unordered, current_iteration>>
    /\ UNCHANGED outside_context
    /\ UNCHANGED pattern_log

\* _finalize, lines 604-617: the run has ended in SUCCESS; the pattern is
\* built from the Context
ContextFinalized ==
    /\ hygiene_pc = "loop"
    /\ state = SUCCESS
    /\ stored_pattern' = PatternOf(context)
    /\ hygiene_pc' = "done"
    /\ UNCHANGED <<state, context, snapshot_status, context_before,
                   context_unordered, current_iteration,
                   planner_dependencies, coder_files>>
    /\ UNCHANGED outside_context

NextContext ==
    \/ ContextRunStart
    \/ ContextBeginPass
    \/ ContextAnalyzed
    \/ ContextCompacted
    \/ ContextReordered
    \/ PlanningWrites
    \/ CodingWrites
    \/ TestingWrites
    \/ ReflectionWrites
    \/ PhaseRaisesUnwritten
    \/ ContextFinalized

SpecContext == InitContext /\ [][NextContext]_vars

\* ------------------------------------------------------------- claims

\* the outcome a returned result reports
Reported == IF result.success THEN "success" ELSE result.status

\* passes of the run whose phase function raised
RaisedPasses ==
    (dispatched[PLANNING] - completed[PLANNING])
    + (dispatched[CODING] - completed[CODING])
    + (dispatched[REVIEWING] - completed[REVIEWING])
    + (dispatched[AUDITING] - completed[AUDITING])
    + (dispatched[TESTING] - completed[TESTING])
    + (dispatched[REFLECTING] - completed[REFLECTING])

\* C1: every change of Orchestrator.state made by run() is an edge of the
\* transition table: INIT->PLANNING at start, PLANNING->CODING,
\* CODING->REVIEWING (review enabled) | AUDITING (audit enabled, review
\* disabled) | TESTING, REVIEWING->AUDITING (audit enabled) | TESTING,
\* AUDITING->TESTING, TESTING->SUCCESS (tester reported passed) | REFLECTING,
\* REFLECTING->CODING, and otherwise only a change to PAUSED at a breaker stop.
C1_TransitionTable ==
    [][state' # state =>
        \/ state = INIT /\ state' = PLANNING /\ pc = "init"
        \/ state = PLANNING /\ state' = CODING
        \/ state = CODING /\ state' = REVIEWING /\ enable_code_review
        \/ state = CODING /\ state' = AUDITING
               /\ ~enable_code_review /\ enable_security_audit
        \/ state = CODING /\ state' = TESTING
               /\ ~enable_code_review /\ ~enable_security_audit
        \/ state = REVIEWING /\ state' = AUDITING /\ enable_security_audit
        \/ state = REVIEWING /\ state' = TESTING /\ ~enable_security_audit
        \/ state = AUDITING /\ state' = TESTING
        \/ state = TESTING /\ state' = SUCCESS
               /\ ~last_raised' /\ last_passed'
        \/ state = TESTING /\ state' = REFLECTING
               /\ ~last_raised' /\ ~last_passed'
        \/ state = REFLECTING /\ state' = CODING
        \/ state' = PAUSED /\ pc = "breaker" /\ cb_ret'
      ]_vars

\* C1 witness: a run took CODING->AUDITING with review disabled, failed a
\* test, reflected and came back to TESTING.
C1_Witness ==
    /\ state = TESTING
    /\ ~enable_code_review /\ enable_security_audit
    /\ completed[AUDITING] = 2
    /\ completed[REFLECTING] = 1

\* C2: run() terminates: the loop makes at most max_iterations passes and
\* run() eventually returns a result, whatever the agents do.
C2_Terminates ==
    /\ [](current_iteration <= max_iterations)
    /\ <>(pc = "done" /\ DOMAIN result # {})

\* C2 witness: a run that used its whole budget, with a phase that raised,
\* has returned.
C2_Witness ==
    /\ pc = "done"
    /\ max_iterations >= 5
    /\ current_iteration = max_iterations
    /\ dispatched[PLANNING] >= 2

\* C3: when run() has returned, Orchestrator.state is SUCCESS, FAILED or
\* PAUSED (a run that exhausts max_iterations ends in state FAILED).
C3_TerminalOnReturn ==
    pc = "done" => state \in {SUCCESS, FAILED, PAUSED}

\* C4 (as stated): run() reports paused exactly when should_stop returned
\* true, failed exactly when the loop ran out of iterations, and every run
\* that reaches iteration max_iterations with tests never passing is
\* reported as failed.
C4_Original ==
    pc = "done" =>
        /\ (Reported = "paused" <=> stop_seen)
        /\ (Reported = "failed" <=> exit_reason = "exhausted")
        /\ (current_iteration = max_iterations /\ ~last_passed
                => Reported = "failed")

\* C4 (amended): paused exactly when should_stop returned true, failed
\* exactly when the loop ran out of iterations; a run that reaches iteration
\* max_iterations with tests never passing is reported as failed only if
\* hard_stop > max_iterations (or max_iterations = 0), and as paused when
\* hard_stop <= max_iterations, because the breaker is checked first.
C4_PausedVersusFailed ==
    pc = "done" =>
        /\ (Reported = "paused" <=> stop_seen)
        /\ (Reported = "failed" <=> exit_reason = "exhausted")
        /\ (Reported = "paused" => state = PAUSED /\ cb_ret)
        /\ (Reported = "failed" =>
                state # SUCCESS /\ ~LoopCondition /\ ~stop_seen)
        /\ (current_iteration = max_iterations /\ ~last_passed =>
                IF hard_stop > max_iterations \/ max_iterations = 0
                THEN Reported = "failed"
                ELSE Reported = "paused")

\* C4 witness: a run stopped by the breaker in the pass numbered
\* max_iterations has returned.
C4_Witness ==
    /\ pc = "done"
    /\ max_iterations = 3
    /\ current_iteration = max_iterations
    /\ ~last_passed
    /\ Reported = "paused"

\* C5 (as stated): when the tester reports passed the first time it runs,
\* SUCCESS is reached at iteration 1 with PLANNING, CODING and TESTING each
\* executed once and REFLECTING never entered.
C5_Original ==
    (state = SUCCESS /\ dispatched[TESTING] = 1) =>
        /\ current_iteration = 1
        /\ completed[PLANNING] = 1
        /\ completed[CODING] = 1
        /\ completed[TESTING] = 1
        /\ dispatched[REFLECTING] = 0

\* C5 (amended): when the tester reports passed the first time it runs,
\* SUCCESS is reached with PLANNING, CODING and TESTING each completed exactly
\* once and REFLECTING never entered, at iteration 3 (one loop pass per
\* phase), plus one pass per enabled optional phase and per pass that raised.
C5_FirstTestPasses ==
    (state = SUCCESS /\ dispatched[TESTING] = 1) =>
        /\ completed[PLANNING] = 1
        /\ completed[CODING] = 1
        /\ completed[TESTING] = 1
        /\ dispatched[REFLECTING] = 0
        /\ state # REFLECTING
        /\ completed[REVIEWING] = (IF enable_code_review THEN 1 ELSE 0)
        /\ completed[AUDITING] = (IF enable_security_audit THEN 1 ELSE 0)
        /\ current_iteration =
              3 + completed[REVIEWING] + completed[AUDITING] + RaisedPasses
        /\ (pc = "done" => result.success /\ result.iterations = current_iteration)

\* C5 witness: the plain scenario (no optional phase, nothing raised) has
\* returned success.
C5_Witness ==
    /\ pc = "done"
    /\ state = SUCCESS
    /\ dispatched[TESTING] = 1
    /\ ~enable_code_review /\ ~enable_security_audit
    /\ RaisedPasses = 0
    /\ result.iterations = 3

\* C6 (as stated): with the tester never passing, max_iterations = 3 and the
\* breaker thresholds above 3, the run goes through CODING, TESTING and
\* REFLECTING three times each and ends in FAILED with iterations = 3.
C6_Original ==
    (/\ pc = "done"
     /\ max_iterations = 3 /\ warning_threshold > 3 /\ hard_stop > 3
     /\ state # SUCCESS) =>
        /\ completed[CODING] = 3
        /\ completed[TESTING] = 3
        /\ completed[REFLECTING] = 3
        /\ state = FAILED
        /\ result.iterations = 3

\* C6 (amended): with the tester never passing, max_iterations = 3 and the
\* breaker thresholds above 3, the run makes exactly three loop passes, one
\* phase each (PLANNING, CODING, TESTING when nothing raises and no optional
\* phase is enabled), so CODING and TESTING run at most once and REFLECTING
\* is never executed; run() returns status failed with iterations = 3.
C6_ThreePasses ==
    (/\ pc = "done"
     /\ max_iterations = 3 /\ warning_threshold > 3 /\ hard_stop > 3
     /\ state # SUCCESS) =>
        /\ current_iteration = 3
        /\ dispatched[PLANNING] + dispatched[CODING] + dispatched[REVIEWING]
             + dispatched[AUDITING] + dispatched[TESTING]
             + dispatched[REFLECTING] = 3
        /\ completed[PLANNING] <= 1
        /\ completed[CODING] <= 1
        /\ completed[TESTING] <= 1
        /\ dispatched[REFLECTING] = 0
        /\ (RaisedPasses = 0 /\ ~enable_code_review /\ ~enable_security_audit
              => /\ completed[PLANNING] = 1
                 /\ completed[CODING] = 1
                 /\ completed[TESTING] = 1
                 /\ state = REFLECTING)
        /\ ~result.success
        /\ result.status = "failed"
        /\ result.iterations = 3

\* C6 witness: the scenario's run has returned after one failed test.
C6_Witness ==
    /\ pc = "done"
    /\ max_iterations = 3 /\ warning_threshold > 3 /\ hard_stop > 3
    /\ completed[TESTING] = 1
    /\ state = REFLECTING
    /\ result.iterations = 3

\* C7: with warning_threshold = 2, hard_stop = 3 and max_iterations = 10 the
\* run never gets to a test, and it returns in PAUSED with iteration count 3
\* whatever the agents do.
C7_PausedAtThree ==
    (warning_threshold = 2 /\ hard_stop = 3 /\ max_iterations = 10) =>
        /\ current_iteration <= 3
        /\ state \notin {SUCCESS, FAILED}
        /\ dispatched[TESTING] = 0
        /\ (pc \in {"finalize", "done"} =>
                state = PAUSED /\ current_iteration = 3)
        /\ (pc = "done" =>
                /\ ~result.success
                /\ result.status = "paused"
                /\ result.iterations = 3)

\* C7 witness: the scenario's run has returned, after a planner call that
\* raised.
C7_Witness ==
    /\ pc = "done"
    /\ warning_threshold = 2 /\ hard_stop = 3 /\ max_iterations = 10
    /\ dispatched[PLANNING] = 2
    /\ user_confirmed

\* C8: a pass whose phase function raises leaves run() in the loop with the
\* state it had before the pass (never FAILED), and the next dispatch after
\* such a pass is of the same phase.
C8_ExceptionKeepsState ==
    [][/\ (pc = "dispatch" /\ last_raised' =>
              /\ state' = state
              /\ state' # FAILED
              /\ pc' = "loop"
              /\ result' = result)
       /\ (pc = "dispatch" /\ last_raised =>
              last_dispatched' = last_dispatched)
      ]_vars

\* C8 witness: the tester raised and was dispatched again in the next pass.
C8_Witness ==
    /\ last_dispatched = TESTING
    /\ dispatched[TESTING] = 2
    /\ completed[TESTING] = 0
    /\ state = TESTING

\* C9: every result returned by run() has a success flag, a final status
\* string and the iteration count, plus output artifacts or a message.
C9_ResultShape ==
    pc = "done" =>
        /\ {"success", "status", "iterations"} \subseteq DOMAIN result
        /\ ("code_files" \in DOMAIN result \/ "message" \in DOMAIN result)

\* C10: whatever calls came before, should_stop(i) returns true if and only
\* if i >= hard_stop; in particular it returns false for
\* warning_threshold <= i < hard_stop.
C10_StopIffHardStop ==
    cb_arg # -1 =>
        /\ (cb_ret <=> cb_arg >= hard_stop)
        /\ (warning_threshold <= cb_arg /\ cb_arg < hard_stop => ~cb_ret)

\* C10 witness: a call in the warning band returned false on a breaker that
\* had warned, and whose flag was cleared by reset() afterwards.
C10_Witness ==
    /\ warning_threshold <= cb_arg
    /\ cb_arg < hard_stop
    /\ ~cb_ret
    /\ ~user_confirmed

\* C11: the warning flag is one-shot: a should_stop call with
\* warning_threshold <= i < hard_stop on an unset flag sets it and logs the
\* warning, no other call sets it or logs, so between two resets the warning
\* is logged at most once; only reset() clears the flag, after which the next
\* such call warns again.
C11_OneShotWarning ==
    /\ [](warnings_logged <= 1 /\ (user_confirmed <=> warnings_logged = 1))
    /\ [][/\ ((cb_op' = "should_stop" /\ ~user_confirmed
                 /\ warning_threshold <= cb_arg' /\ cb_arg' < hard_stop)
                => (user_confirmed' /\ warnings_logged' = warnings_logged + 1))
          /\ ((cb_op' = "should_stop" /\ user_confirmed)
                => (user_confirmed' /\ warnings_logged' = warnings_logged))
          /\ ((~user_confirmed /\ user_confirmed')
                => (cb_op' = "should_stop"
                    /\ warning_threshold <= cb_arg' /\ cb_arg' < hard_stop))
          /\ ((user_confirmed /\ ~user_confirmed') => cb_op' = "reset")
          /\ ((warnings_logged' > warnings_logged)
                => (~user_confirmed /\ user_confirmed'))
         ]_vars

\* C11 witness: the breaker warned, was reset, and a later call in the
\* warning band warned again.
C11_Witness ==
    /\ was_reset
    /\ cb_op = "should_stop"
    /\ warning_threshold <= cb_arg /\ cb_arg < hard_stop
    /\ user_confirmed
    /\ warnings_logged = 1

\* ------------------------------------------------- claims on the hooks
\* entry i of the trace is an execute call that came back with this outcome
ExecutedWith(i, outcome) ==
    /\ hp_trace[i].method = "execute"
    /\ hp_trace[i].outcome = outcome

\* the latest invocation of the run is an execute call with this outcome
LastExecutedWith(outcome) ==
    /\ Len(hp_trace) > 0
    /\ ExecutedWith(Len(hp_trace), outcome)

\* the hooks that had should_run or execute invoked in the run
Invoked == {hp_trace[i].hook : i \in 1..Len(hp_trace)}

\* the hooks behind list position k
Behind(k) == {hooks[j] : j \in (k + 1)..Len(hooks)}

\* C12: as soon as an executed hook responds BLOCK the run has returned BLOCK:
\* the BLOCK is the last invocation of the run, and no hook behind the
\* blocking one in the list had should_run or execute invoked
C12_BlockShortCircuits ==
    \A i \in 1..Len(hp_trace) :
        ExecutedWith(i, BLOCK) =>
            /\ i = Len(hp_trace)
            /\ hp_pc = "returned"
            /\ hp_result = BLOCK
            /\ hooks[hp_index] = hp_trace[i].hook
            /\ Behind(hp_index) \cap Invoked = {}

\* A(10) answers without stopping, B(20) responds BLOCK, and C, registered
\* behind B, enabled and willing to run, was never asked
C12_Witness ==
    /\ hp_pc = "returned"
    /\ hp_result = BLOCK
    /\ hp_phase = PRE_EXECUTION
    /\ hooks = <<"A", "B", "C">>
    /\ hook_enabled["C"]
    /\ ShouldRun("C", hp_context)
    /\ Len(hp_trace) = 4
    /\ hp_trace[2].hook = "A"
    /\ hp_trace[4].hook = "B"
    /\ ExecutedWith(4, BLOCK)

\* C14: a REQUIRE_APPROVAL response stops the run at once as a BLOCK does (it
\* is the last invocation, no hook behind it was asked), the warnings gathered
\* before it are returned with its own message behind them, the working
\* context is returned as it stood, and the result is REQUIRE_APPROVAL
C14_ApprovalStops ==
    /\ [](\A i \in 1..Len(hp_trace) :
            ExecutedWith(i, REQUIRE_APPROVAL) =>
                /\ i = Len(hp_trace)
                /\ hp_pc = "returned"
                /\ hp_result = REQUIRE_APPROVAL
                /\ hp_result # BLOCK
                /\ hooks[hp_index] = hp_trace[i].hook
                /\ Behind(hp_index) \cap Invoked = {})
    /\ [][(hp_pc = "running" /\ hp_pc' = "returned"
             /\ LastExecutedWith(REQUIRE_APPROVAL)')
            => (/\ Len(hp_warnings') = Len(hp_warnings) + 1
                /\ SubSeq(hp_warnings', 1, Len(hp_warnings)) = hp_warnings
                /\ hp_warnings'[Len(hp_warnings')].hook = hooks[hp_index]
                /\ hp_context' = hp_context)]_vars

\* A warned, B then asked for approval with C registered behind it: the run
\* returned REQUIRE_APPROVAL with A's warnings and B's message
C14_Witness ==
    /\ hp_pc = "returned"
    /\ hp_result = REQUIRE_APPROVAL
    /\ hooks = <<"A", "B", "C">>
    /\ hook_enabled["C"]
    /\ Len(hp_trace) = 4
    /\ ExecutedWith(2, WARN)
    /\ hp_trace[4].hook = "B"
    /\ ExecutedWith(4, REQUIRE_APPROVAL)
    /\ Len(hp_warnings) = 3
    /\ hp_warnings[1].hook = "A"
    /\ hp_warnings[3].hook = "B"

\* the execute calls before invocation i that came back MODIFY
ModifiedBefore(i) == {j \in 1..(i - 1) : ExecutedWith(j, MODIFY)}

\* the content invocation i has to be handed: that of the latest MODIFY before
\* it, the caller's content if there is none
ContentDue(i) ==
    IF ModifiedBefore(i) = {} THEN hp_input.content
    ELSE LET last == CHOOSE j \in ModifiedBefore(i) :
                        \A k \in ModifiedBefore(i) : k <= j
         IN  "content_of_" \o hp_trace[last].hook

\* C15: within a run every should_run and every execute call is handed the
\* content of the latest MODIFY response before it, the working (and, at the
\* end, returned) context carries the content of the last MODIFY, and its
\* operation, agent_type, iteration, target and metadata are the caller's
C15_ModifyChains ==
    (hp_pc \in {"running", "returned"}) =>
        /\ \A i \in 1..Len(hp_trace) : hp_trace[i].content = ContentDue(i)
        /\ hp_context.content = ContentDue(Len(hp_trace) + 1)
        /\ hp_context.operation = hp_input.operation
        /\ hp_context.agent_type = hp_input.agent_type
        /\ hp_context.iteration = hp_input.iteration
        /\ hp_context.target = hp_input.target
        /\ hp_context.metadata = hp_input.metadata

\* A and B both responded MODIFY; C, whose should_run depends on the content,
\* was asked and executed on B's content, and B's content is returned
C15_Witness ==
    /\ hp_pc = "returned"
    /\ hp_result = ALLOW
    /\ hooks = <<"A", "B", "C">>
    /\ Len(hp_trace) = 6
    /\ ExecutedWith(2, MODIFY)
    /\ hp_trace[3].content = "content_of_A"
    /\ ExecutedWith(4, MODIFY)
    /\ hp_trace[5].hook = "C"
    /\ hp_trace[5].method = "should_run"
    /\ hp_trace[5].content = "content_of_B"
    /\ ExecutedWith(6, ALLOW)
    /\ hp_trace[6].content = "content_of_B"
    /\ hp_input.content = "original"
    /\ hp_context.content = "content_of_B"

\* position of a registered hook in the list
ListPosition(h) == CHOOSE p \in 1..Len(hooks) : hooks[p] = h

\* C16: an execute call that raises leaves the run going as an ALLOW without
\* message would: the working context, the warnings and the pending result
\* are untouched and the loop moves to the next hook; every enabled hook of
\* the phase between the failing hook and the loop position has been asked;
\* and the returned result is that of the hooks that responded (BLOCK or
\* REQUIRE_APPROVAL of the last response, ALLOW otherwise)
C16_RaiseIsAllow ==
    /\ [][(hp_trace' # hp_trace /\ LastExecutedWith("raised")')
            => (/\ hp_pc' = "running"
                /\ hp_context' = hp_context
                /\ hp_warnings' = hp_warnings
                /\ hp_result' = hp_result
                /\ hp_index' = hp_index + 1)]_vars
    /\ [](\A i \in 1..Len(hp_trace) :
            ExecutedWith(i, "raised") =>
                \A q \in (ListPosition(hp_trace[i].hook) + 1)..(hp_index - 1) :
                    ~PassedOver(hooks[q], hp_phase) => hooks[q] \in Invoked)
    /\ []((hp_pc = "returned") =>
            hp_result = IF LastExecutedWith(BLOCK) THEN BLOCK
                        ELSE IF LastExecutedWith(REQUIRE_APPROVAL)
                             THEN REQUIRE_APPROVAL
                             ELSE ALLOW)

\* A raised in execute, B behind it was still executed and its BLOCK decided
\* the run; the context is the caller's
C16_Witness ==
    /\ hp_pc = "returned"
    /\ hooks = <<"A", "B", "C">>
    /\ Len(hp_trace) = 4
    /\ hp_trace[2].hook = "A"
    /\ ExecutedWith(2, "raised")
    /\ hp_trace[4].hook = "B"
    /\ ExecutedWith(4, BLOCK)
    /\ hp_result = BLOCK
    /\ hp_context = hp_input
    /\ hp_warnings = <<[hook |-> "B", text |-> "blocked"]>>

\* position of a registered hook among the register calls
RegistrationPosition(h) ==
    CHOOSE p \in 1..Len(registration_order) : registration_order[p] = h

\* the list holds the registered hooks in ascending priority, hooks of equal
\* priority in the order of their registration
InRegistryOrder ==
    /\ Len(hooks) = Len(registration_order)
    /\ Registered(hooks) = Registered(registration_order)
    /\ \A i, j \in 1..Len(hooks) :
        (i < j) =>
            \/ HookPriority(hooks[i]) < HookPriority(hooks[j])
            \/ /\ HookPriority(hooks[i]) = HookPriority(hooks[j])
               /\ RegistrationPosition(hooks[i]) < RegistrationPosition(hooks[j])

\* the hooks whose execute was invoked in the run, in the order of the calls
ExecutedHooks ==
    LET IsExecute(e) == e.method = "execute"
        calls == SelectSeq(hp_trace, IsExecute)
    IN  [i \in 1..Len(calls) |-> calls[i].hook]

\* the hook is enabled, of the phase of the run, and its should_run is true:
\* as it answered if it was asked, on the working context if it was not
Eligible(h) ==
    /\ ~PassedOver(h, hp_phase)
    /\ IF h \in Invoked
       THEN \E i \in 1..Len(hp_trace) :
                /\ hp_trace[i].hook = h
                /\ hp_trace[i].method = "should_run"
                /\ hp_trace[i].outcome = "true"
       ELSE ShouldRun(h, hp_context)

\* every should_run answer of the run is the predicate of that hook on the
\* context it was handed
AnswersAreShouldRun ==
    \A i \in 1..Len(hp_trace) :
        (hp_trace[i].method = "should_run") =>
            ((hp_trace[i].outcome = "true") <=>
                ShouldRun(hp_trace[i].hook,
                          [hp_input EXCEPT !.content = hp_trace[i].content]))

\* C17 as stated: a run that has returned executed exactly the eligible hooks
\* of the list, in list order, and the list is in priority and registration
\* order
C17_Original ==
    /\ InRegistryOrder
    /\ (hp_pc = "returned") =>
          (AnswersAreShouldRun /\ ExecutedHooks = SelectSeq(hooks, Eligible))

\* how far into the list the run has got: up to the hook that stopped it, or
\* to the hook before the loop position
Reached ==
    IF hp_pc = "returned" /\ hp_result # ALLOW THEN hp_index ELSE hp_index - 1

\* C17 amended: the list is in priority and registration order after any
\* register, unregister, enable and disable calls, and a run executes, up to
\* and including the first hook that responds BLOCK or REQUIRE_APPROVAL (the
\* whole list if none does), exactly the eligible hooks, in list order
C17_EligibleUntilStopped ==
    /\ InRegistryOrder
    /\ (hp_pc \in {"running", "returned"}) =>
          /\ AnswersAreShouldRun
          /\ ExecutedHooks = SelectSeq(SubSeq(hooks, 1, Reached), Eligible)
          /\ (hp_pc = "returned" /\ hp_result = ALLOW) => Reached = Len(hooks)

\* C was registered before B, which has the same priority, and a hook has
\* been unregistered and registered again; the run passed over the disabled
\* or wrong-phase D and executed A, C and B in that order
C17_Witness ==
    /\ hp_pc = "returned"
    /\ hp_result = ALLOW
    /\ hp_phase = PRE_EXECUTION
    /\ registration_order = <<"C", "D", "B", "A">>
    /\ hooks = <<"A", "C", "B", "D">>
    /\ ExecutedHooks = <<"A", "C", "B">>

\* ------------------------------------------------ claims on the sandbox
\* C13: a command whose pre-execution hooks returned BLOCK starts no process:
\* _run_command takes BLOCK as its hook_result, and with that hook_result it
\* has returned a non-zero return code, no Docker container and no local
\* process was started, and the post-execution hooks were not called; before
\* the pre-hooks have returned nothing is started either
C13_BlockedNeverSpawns ==
    /\ [][(sb_pc = "pre_hooks" /\ hp_pc = "returned" /\ hp_result = BLOCK
             /\ sb_pc' # sb_pc)
            => (sb_hook_result' = BLOCK /\ sb_pc' = "done")]_vars
    /\ []((sb_hook_result = BLOCK) =>
            /\ sb_pc = "done"
            /\ sb_spawned = <<>>
            /\ sb_post_runs = 0
            /\ sb_returncode \notin {0, -1}
            /\ hp_phase = PRE_EXECUTION)
    /\ []((sb_pc = "pre_hooks") => (sb_spawned = <<>> /\ sb_post_runs = 0))

\* 'rm -rf /' with Docker available: hook A, first in the list, responded
\* BLOCK and _run_command returned return code 1 without starting anything
C13_Witness ==
    /\ sb_pc = "done"
    /\ sb_docker
    /\ sb_command = "rm -rf /"
    /\ sb_hook_result = BLOCK
    /\ sb_returncode = 1
    /\ sb_spawned = <<>>
    /\ hooks = <<"A", "B", "C", "D">>
    /\ LastExecutedWith(BLOCK)
    /\ hp_trace[Len(hp_trace)].hook = "A"
    /\ hp_trace[Len(hp_trace)].content = "rm -rf /"

\* ------------------------------------------------ claims on the Context
\* C18: in every state of a run, directly after compaction and after the
\* reordering included, the Context holds the task identifier and the goal,
\* neither of them None
C18_TaskIdAndGoal ==
    /\ {"task_id", "goal"} \subseteq Keys(context)
    /\ {"task_id", "goal"} \cap context.null = {}

\* the pass has just compacted and reordered a Context whose goal was over
\* its rule's cap
C18_Witness ==
    /\ hygiene_pc = "phase"
    /\ NeedsCompaction(snapshot_status)
    /\ "_compaction_metadata" \in Keys(context)
    /\ context.order[1] = "goal"
    /\ context.tokens["goal"] # context_before.tokens["goal"]
    /\ "current_agent" \notin Keys(context)

\* the fields the preservation rules name
RuleFields ==
    {"task_description", "goal", "previous_errors", "plan", "code_files",
     "test_results"}

\* C19: directly after compact, every field a preservation rule names that was
\* in the Context is in the compacted Context (None staying None, a value
\* staying a value, possibly smaller), and so are the task id and the goal
C19_RuleFieldsPreserved ==
    (hygiene_pc = "compacted") =>
        /\ \A f \in RuleFields \cup {"task_id", "goal"} :
            (f \in Keys(context_before)) =>
                /\ f \in Keys(context)
                /\ (f \in context.null) <=> (f \in context_before.null)
        /\ \A f \in RuleFields \cap TextKeys :
            (f \in Keys(context_before)) =>
                context.tokens[f] <=
                    context_before.tokens[f] + TruncationMarkerTokens

\* compact has cut the goal and the code files of a Context that held all six
\* rule fields
C19_Witness ==
    /\ hygiene_pc = "compacted"
    /\ RuleFields \subseteq Keys(context_before)
    /\ context.tokens["goal"] # context_before.tokens["goal"]
    /\ context.code_files.marked
    /\ ~context_before.code_files.marked

\* C20: directly after compact of a CRITICAL or OVERFLOW Context, the size
\* estimate of the compacted Context, its compaction metadata included, is at
\* most the size estimate of the Context that was handed in
C20_CompactionNeverGrows ==
    (hygiene_pc = "compacted" /\ NeedsCompaction(snapshot_status)) =>
        TotalTokens(context) <= TotalTokens(context_before)

\* ----------------------------------------------------------------------------
\* claims on the recency bias

\* C21: apply_recency_bias is idempotent: applied to the Context it returned
\* it returns the same Context again, keys, values and key order alike; this
\* holds of the Context the loop has just reordered and of every Context a run
\* holds
C21_RecencyBiasIdempotent ==
    /\ ApplyRecencyBias(ApplyRecencyBias(context)) = ApplyRecencyBias(context)
    /\ (hygiene_pc = "phase") =>
        /\ context = ApplyRecencyBias(context_unordered)
        /\ ApplyRecencyBias(context) = context

\* the loop has reordered a Context whose keys were not in zone order, with
\* unclassified keys both before and behind classified ones
C21_Witness ==
    /\ hygiene_pc = "phase"
    /\ context # context_unordered
    /\ Len(Remainder(context_unordered)) >= 2
    /\ Len(Zones(context_unordered)) >= 2

\* the Context with the key order of another
WithOrderOf(ctx, other) == [ctx EXCEPT !.order = other.order]

\* a sequence without repeated entries
NoRepeats(list) ==
    \A i, j \in 1..Len(list) : (list[i] = list[j]) => (i = j)

\* C22: apply_recency_bias only reorders: the reordered Context has the keys
\* of the Context handed in, each once and each with the value it had, and the
\* step that reorders leaves the Context handed in as it was
C22_RecencyBiasOnlyReorders ==
    /\ [](hygiene_pc = "phase" =>
            /\ Keys(context) = Keys(context_unordered)
            /\ Len(context.order) = Len(context_unordered.order)
            /\ NoRepeats(context.order)
            /\ WithOrderOf(context, context_unordered) = context_unordered)
    /\ [][ContextReordered => context_unordered' = context]_vars

\* a compacted Context with code files and test results has been reordered
C22_Witness ==
    /\ hygiene_pc = "phase"
    /\ context.order # context_unordered.order
    /\ context.code_files # NoCodeFiles
    /\ context.test_results # NoTestResults
    /\ "_compaction_metadata" \in Keys(context)

\* the zone of a key: 1 front, 2 middle, 3 end, 4 unclassified
ZoneOf(k) ==
    IF k \in {"goal", "task_description", "plan"} THEN 1
    ELSE IF k \in {"dependencies", "subtasks", "_compaction_metadata"} THEN 2
    ELSE IF k \in {"previous_errors", "test_results", "code_files",
                   "iteration"} THEN 3
    ELSE 4

\* the place of a key in a list it is in
PlaceIn(list, k) == CHOOSE p \in 1..Len(list) : list[p] = k

\* the documented order of the classified keys
DocumentedOrder ==
    <<"goal", "task_description", "plan", "dependencies", "subtasks",
      "_compaction_metadata", "previous_errors", "test_results", "code_files",
      "iteration">>

\* C23: in the reordered Context the front keys come first, then the middle
\* keys, then the end keys, each zone in its documented order, then the
\* unclassified keys in the order they had in the Context handed in
C23_ZoneOrder ==
    (hygiene_pc = "phase") =>
        \A i, j \in 1..Len(context.order) :
            (i < j) =>
                LET a == context.order[i]
                    b == context.order[j]
                IN  \/ ZoneOf(a) < ZoneOf(b)
                    \/ /\ ZoneOf(a) = ZoneOf(b)
                       /\ ZoneOf(a) < 4
                       /\ PlaceIn(DocumentedOrder, a)
                            < PlaceIn(DocumentedOrder, b)
                    \/ /\ ZoneOf(a) = 4
                       /\ ZoneOf(b) = 4
                       /\ PlaceIn(context_unordered.order, a)
                            < PlaceIn(context_unordered.order, b)

\* a Context with keys of all four zones, handed in with an end key before a
\* middle key and an unclassified key before an end key, has been reordered
C23_Witness ==
    /\ hygiene_pc = "phase"
    /\ \A z \in 1..4 : \E k \in Keys(context) : ZoneOf(k) = z
    /\ "_compaction_metadata" \in Keys(context)
    /\ \E i, j \in 1..Len(context_unordered.order) :
        /\ i < j
        /\ ZoneOf(context_unordered.order[i]) = 3
        /\ ZoneOf(context_unordered.order[j]) = 2
    /\ \E i, j \in 1..Len(context_unordered.order) :
        /\ i < j
        /\ ZoneOf(context_unordered.order[i]) = 4
        /\ ZoneOf(context_unordered.order[j]) = 3

\* ----------------------------------------------------------------------------
\* claims on the testing phase

\* C30: when the sandboxed test command times out or raises, the tester's
\* result has passed = False and an error message, the exception never leaves
\* the tester, and the testing phase that returns with this result moves the
\* run from TESTING to REFLECTING, as it does for a command that ran and
\* returned a non-zero code
C30_InfrastructureFailureIsTestFailure ==
    /\ [](tester_pc # "tester_raised")
    /\ []((tester_pc = "parsed" /\ sb_exception # "none") =>
            /\ ~test_result.passed
            /\ test_result.error_message # "None")
    /\ [][(tester_pc = "parsed" /\ tester_pc' = "phase_returned"
             /\ (sb_exception # "none" \/ sb_returncode # 0))
            => (state = TESTING /\ state' = REFLECTING)]_vars

\* the test command timed out and the testing phase has returned: the run is
\* in REFLECTING
C30_Witness ==
    /\ tester_pc = "phase_returned"
    /\ sb_command = "python -m pytest"
    /\ sb_exception = "TimeoutExpired"
    /\ ~test_result.passed
    /\ state = REFLECTING

\* ----------------------------------------------------------------------------
\* claims on the checkpoint file

\* C27 as stated: a load returns None when no save call has returned, and
\* otherwise exactly the state, the iteration and the context of the most
\* recent save call that returned
C27_Original ==
    [][Load =>
        (loaded' = IF saved = NoPayload THEN LoadedNone
                   ELSE [kind |-> "dict", state |-> saved.state,
                         iteration |-> saved.iteration,
                         context |-> saved.context])]_vars

\* C27 amended: the checkpoint file is last-writer-wins up to its encoding.
\* When the latest save call returned, load returns the state and the
\* iteration of that call and its context as JSON holds it: the JSON-native
\* part as it was saved, the task id as a string with the text of the saved
\* one. Load returns None when there is no file, and after a save call that
\* raised it returns None or the payload of the file as it is
C27_LastWriterWins ==
    /\ [][(Load /\ saved # NoPayload /\ ~save_raised) =>
            /\ loaded'.kind = "dict"
            /\ loaded'.state = saved.state
            /\ loaded'.iteration = saved.iteration
            /\ loaded'.context.rest = saved.context.rest
            /\ loaded'.context.task_id.text = saved.context.task_id.text
            /\ loaded'.context.task_id.type = "str"]_vars
    /\ [][(Load /\ checkpoint_file = NoFile) => (loaded' = LoadedNone)]_vars
    /\ [][(Load /\ save_raised) =>
            \/ loaded' = LoadedNone
            \/ /\ checkpoint_file.kind = "json"
               /\ loaded'.kind = "dict"
               /\ loaded'.state = checkpoint_file.state
               /\ loaded'.iteration = checkpoint_file.iteration]_vars
    /\ []((checkpoint_file = NoFile) => (saved = NoPayload))

\* two save calls have returned, the later with the UUID task id, and load
\* has returned the payload of the later one
C27_Witness ==
    /\ checkpoint_log = {5, 10}
    /\ ~save_raised
    /\ saved.iteration = 5
    /\ saved.state = TESTING
    /\ saved.context.task_id.type = "UUID"
    /\ saved.context.rest = InitialContext(600, 20)
    /\ loaded.kind = "dict"
    /\ loaded.iteration = 5
    /\ loaded.state = TESTING
    /\ loaded.context.rest = InitialContext(600, 20)

\* ----------------------------------------------------------------------------
\* claims on checkpoints and persistence

\* a pass ends and the loop goes on: run() is back at the while condition,
\* which holds
PassEnds ==
    /\ pc \in {"phase", "metric", "checkpoint"}
    /\ pc' = "loop"
    /\ LoopCondition

\* C24: every pass whose iteration number is a multiple of 5 and after which
\* the loop goes on has left a checkpoint file that records the state, the
\* iteration number and the Context the run then has, whatever the phase of
\* the pass did; a pass whose StateSaver.save call raised is not counted
C24_CheckpointEveryFifthPass ==
    [][(PassEnds /\ current_iteration % 5 = 0 /\ ~save_raised') =>
        /\ checkpoint_file'.kind = "json"
        /\ checkpoint_file'.state = state'
        /\ checkpoint_file'.iteration = current_iteration
        /\ checkpoint_file'.context.rest = context']_vars

\* C25: a StateSaver.save call that raises is not fatal: the run is back at
\* the while condition with the state, the iteration counter and the Context
\* it had, which is where a save call that returns leaves it, and no run is
\* ever left by an exception without a persistence write having raised
C25_CheckpointFailureNotFatal ==
    /\ [][CheckpointSaveRaises =>
            /\ pc' = "loop"
            /\ state' = state
            /\ current_iteration' = current_iteration
            /\ context' = context]_vars
    /\ [][CheckpointSaved =>
            /\ pc' = "loop"
            /\ state' = state
            /\ current_iteration' = current_iteration
            /\ context' = context]_vars
    /\ []((pc = "raised") => (failed_write # "none"))

\* the save call of pass 5 raised, no checkpoint file was ever written, and
\* the run went on to return success
C25_Witness ==
    /\ pc = "done"
    /\ save_raised
    /\ checkpoint_log = {}
    /\ failed_write = "none"
    /\ state = SUCCESS
    /\ result.success
    /\ current_iteration > 5

\* C26: no persistence write that raises is fatal: run() is never left by an
\* exception
C26_PersistenceFailureNotFatal ==
    pc # "raised"

\* C28: a run that returns has stored exactly one pattern if it ends in
\* SUCCESS and none if it ends paused or failed, where the task row holds the
\* final status and the iteration count only; no run stores more than one
\* pattern, and none before it has reached SUCCESS
C28_PatternOnSuccessOnly ==
    /\ patterns <= 1
    /\ (patterns = 1) => (state = SUCCESS /\ pc \in {"done", "raised"})
    /\ (pc = "done") =>
        /\ patterns = IF state = SUCCESS THEN 1 ELSE 0
        /\ db_task.total_iterations = current_iteration
        /\ db_task.final_code = (state = SUCCESS)
        /\ db_task.status =
            (IF state = SUCCESS THEN "success"
             ELSE IF state = PAUSED THEN "paused" ELSE "failed")

\* a run has returned success after a failed test and a stored failure: one
\* pattern and the final task row are written
C28_Witness ==
    /\ pc = "done"
    /\ state = SUCCESS
    /\ patterns = 1
    /\ failures # {}
    /\ db_task.status = "success"
    /\ db_task.total_iterations = current_iteration

\* C29: in every run that has returned success, every failure row the run
\* stored is marked fixed
C29_FailuresMarkedFixed ==
    (pc = "done" /\ state = SUCCESS) => \A f \in failures : f.fixed

\* claims on the guards of the default registry

\* C31: the token-budget guard is advisory: after any record_usage and execute
\* calls, execute answers WARN exactly when tokens_used plus the estimated
\* tokens of the call exceeds the ceiling and ALLOW otherwise, never BLOCK or
\* REQUIRE_APPROVAL, and execute leaves tokens_used as it was
C31_BudgetIsAdvisory ==
    /\ [](budget_call # NoBudgetCall =>
            /\ budget_call.result \in {WARN, ALLOW}
            /\ budget_call.result = WARN <=>
                 budget_call.used + budget_call.estimated > budget_ceiling)
    /\ [][BudgetExecute => tokens_used' = tokens_used]_vars

\* usage was recorded, then a call within the ceiling on its own was warned
\* about because of the recorded usage
C31_Witness ==
    /\ budget_call.result = WARN
    /\ budget_call.used > 0
    /\ budget_call.estimated <= budget_ceiling
    /\ tokens_used = budget_call.used

\* the entries among the last five of a history whose normalized text is the
\* normalized text of e
SameInLastFive(history, e) ==
    {i \in 1..Len(history) :
        /\ i > Len(history) - 5
        /\ NormalizeError(history[i]) = NormalizeError(e)}

\* two error texts that differ at most in the number of a line part and the
\* path of a file part
DifferOnlyInLinesAndPaths(e, f) ==
    /\ e.message = f.message
    /\ e.padded = f.padded
    /\ e.tail = f.tail
    /\ (e.line = "") <=> (f.line = "")
    /\ (e.path = "") <=> (f.path = "")

IsPrefix(short, long) ==
    /\ Len(short) <= Len(long)
    /\ \A i \in 1..Len(short) : short[i] = long[i]

\* the phase functions run() has called
Dispatches ==
    dispatched[PLANNING] + dispatched[CODING] + dispatched[REVIEWING]
    + dispatched[AUDITING] + dispatched[TESTING] + dispatched[REFLECTING]

\* C33: within a pass the steps come in the order counter increment, context
\* hygiene, start-of-iteration hooks, circuit-breaker check, creation of the
\* iteration record, phase dispatch; when the breaker stops the run at
\* iteration i, no record is created and no phase function is called for
\* iteration i
C33_StepOrder ==
    /\ IsPrefix(pass_trace, StepOrder)
    /\ exit_reason = "breaker" =>
         /\ pass_trace = <<"increment", "hygiene", "pre_hooks", "breaker">>
         /\ \A k \in 1..Len(iteration_records) :
              iteration_records[k].iteration # current_iteration
         /\ Len(iteration_records) = current_iteration - 1
         /\ Dispatches = current_iteration - 1

\* the breaker stopped the run in its third pass, after two passes that went
\* through all six steps
C33_Witness ==
    /\ pc = "done"
    /\ exit_reason = "breaker"
    /\ current_iteration = 3
    /\ Len(iteration_records) = 2
    /\ Dispatches = 2

\* C34: the result of the start-of-iteration hooks does not affect control
\* flow: whatever the pipeline returns, the pass goes on to the breaker check
\* with the state and the Context it had, and a pass the breaker lets through
\* dispatches the phase of that state
C34_HookResultIgnored ==
    [][/\ PassPreHooks =>
            /\ pc' = "breaker"
            /\ state' = state
            /\ current_iteration' = current_iteration
            /\ context' = context
       /\ (pc = "breaker" /\ pc' = "create") => state' = state
       /\ (pc = "create" /\ pc' = "phase") => state' = state
       /\ (pc = "phase" /\ pc' # "phase") => last_dispatched' = state]_vars

\* the first pass of a run: the pipeline returned BLOCK and the planning
\* phase was dispatched and returned all the same
C34_Witness ==
    /\ run_hook_result = BLOCK
    /\ current_iteration = 1
    /\ pc = "loop"
    /\ completed[PLANNING] = 1
    /\ state = CODING

\* the records carry the numbers 1, 2, 3, ... in this order
NumberedFromOne ==
    \A k \in 1..Len(iteration_records) : iteration_records[k].iteration = k

\* C37 as stated: every pass creates exactly one iteration record, numbered
\* 1, 2, 3, ... without gaps or repeats
C37_Original ==
    /\ NumberedFromOne
    /\ pc \in {"loop", "finalize", "done"} =>
         Len(iteration_records) = current_iteration

\* C37 amended: every pass that the breaker does not stop creates exactly one
\* iteration record, after the breaker check and before the phase is
\* dispatched, carrying the number of the pass and the tag of the state the
\* pass dispatches; a pass the breaker stops creates none; the numbers of the
\* records are 1, 2, 3, ... without gaps or repeats
C37_OneRecordPerDispatchedPass ==
    /\ [](/\ NumberedFromOne
          /\ pc \in {"loop", "finalize", "done"} =>
               Len(iteration_records) =
                 IF exit_reason = "breaker" THEN current_iteration - 1
                 ELSE current_iteration
          /\ Len(iteration_records) = Dispatches + IF pc = "phase" THEN 1 ELSE 0)
    /\ [][(pc = "phase" /\ pc' # "phase") =>
            /\ iteration_records[Len(iteration_records)].iteration
                 = current_iteration
            /\ iteration_records[Len(iteration_records)].phase
                 = last_dispatched']_vars

\* a run of four passes: the fourth record is the one of the reflection
\* phase, which was dispatched
C37_Witness ==
    /\ pc = "loop"
    /\ Len(iteration_records) = 4
    /\ iteration_records[4] = [iteration |-> 4, phase |-> REFLECTING]
    /\ last_dispatched = REFLECTING
    /\ current_iteration = 4

\* the reflection phases of the run that returned the error, up to
\* normalization
CyclesWith(e) ==
    {c \in failure_cycles : c.error = NormalizeError(e)}

\* C38: when the repeated-error guard answers WARN at the start of an
\* iteration, at least max_same_error failed testing/reflection cycles of the
\* run have produced that error, up to normalization
C38_WarnMeansRepeatedFailures ==
    guard_call.result = WARN =>
        Cardinality(CyclesWith(guard_call.error)) >= max_same_error

\* claims on the stored pattern and on compaction

\* C35: the pattern persisted on SUCCESS carries the dependency list the
\* planner produced and the code files the most recent coding phase produced,
\* in every run, also when the Context was compacted in between
C35_PatternCarriesPlanAndCode ==
    stored_pattern # NoPattern =>
        /\ stored_pattern.dependencies = planner_dependencies
        /\ stored_pattern.code_files = coder_files

\* the scalar allow-list of compact
ScalarAllowList ==
    {"task_id", "iteration", "problem_type", "language", "workspace"}

\* C36: compaction is lossy exactly on uncovered fields: the keys of the
\* compacted Context are the keys of the Context handed in that a preservation
\* rule names or the scalar allow-list holds, plus the compaction metadata
\* key; every other key of the Context handed in is absent
C36_CompactionKeys ==
    (hygiene_pc = "compacted") =>
        /\ Keys(context) =
             (Keys(context_before) \cap (RuleFields \cup ScalarAllowList))
             \cup {"_compaction_metadata"}
        /\ \A k \in Keys(context_before) :
             k \notin (RuleFields \cup ScalarAllowList
                       \cup {"_compaction_metadata"})
               => k \notin Keys(context)
        /\ NoRepeats(context.order)

\* compact has dropped the planner's lists and the agent tag of a Context
\* that held them, and kept its plan and its task id
C36_Witness ==
    /\ hygiene_pc = "compacted"
    /\ {"subtasks", "dependencies", "current_agent", "plan", "task_id"}
         \subseteq Keys(context_before)
    /\ Keys(context) \cap {"subtasks", "dependencies", "current_agent"} = {}
    /\ {"plan", "task_id", "_compaction_metadata"} \subseteq Keys(context)

\* claims on the failure analyzer

\* an absent, None or empty field of the test results
IsEmpty(v) ==
    v \in {MissingValue, NoneValue, StrValue(""), DictValue("{}")}

\* C39: extract returns None exactly when the error message, the standard
\* error stream and the raw results are all empty; otherwise it returns a
\* FailureInfo whose error text is the first of the three that is not empty,
\* in this order, also for a result that says passed
C39_FirstNonEmptyText ==
    extract_call.kind = "returned" =>
        LET tr == extract_call.test_results
            out == extract_call.output
        IN  /\ out.kind = "None" <=>
                 /\ IsEmpty(tr.error_message)
                 /\ IsEmpty(tr.stderr)
                 /\ IsEmpty(tr.test_results)
            /\ out.kind \in {"None", "FailureInfo"}
            /\ out.kind = "FailureInfo" =>
                 out.error_message.text =
                   IF ~IsEmpty(tr.error_message) THEN tr.error_message.text
                   ELSE IF ~IsEmpty(tr.stderr) THEN tr.stderr.text
                   ELSE tr.test_results.text

\* a result that says passed, with neither an error message nor standard
\* error but with raw results, has yielded a FailureInfo made of the raw
\* results
C39_Witness ==
    /\ extract_call.kind = "returned"
    /\ extract_call.test_results.passed
    /\ extract_call.test_results.error_message = StrValue("")
    /\ extract_call.test_results.stderr = StrValue("")
    /\ extract_call.output.kind = "FailureInfo"
    /\ extract_call.output.error_message
         = StrValue("{'passed': 5, 'failed': 0}")
    /\ extract_call.output.error_type = "UnknownError"

\* claims on the result of the hook pipeline

\* some execute call of the run came back with this outcome
SomeExecutedWith(outcome) ==
    \E i \in 1..Len(hp_trace) : ExecutedWith(i, outcome)

\* C40: the tag a hook run returns is ALLOW, BLOCK or REQUIRE_APPROVAL, never
\* WARN or MODIFY, and it is ALLOW whenever no executed hook responded BLOCK
\* or REQUIRE_APPROVAL, the run over an empty registry included
C40_ResultTags ==
    hp_pc = "returned" =>
        /\ hp_result \in {ALLOW, BLOCK, REQUIRE_APPROVAL}
        /\ hp_result \notin {WARN, MODIFY}
        /\ (~SomeExecutedWith(BLOCK) /\ ~SomeExecutedWith(REQUIRE_APPROVAL))
              => hp_result = ALLOW
        /\ hooks = <<>> => hp_result = ALLOW

\* a run over three hooks in which one responded MODIFY and the last one
\* WARN has returned ALLOW
C40_Witness ==
    /\ hp_pc = "returned"
    /\ hp_result = ALLOW
    /\ Len(hooks) = 3
    /\ SomeExecutedWith(MODIFY)
    /\ LastExecutedWith(WARN)

============================================================================
